---- MODULE Spec2Model ----
(***************************************************************************)
(* The tracked-transaction store of the BTC staker (package stakerdb).     *)
(*                                                                         *)
(* The key-value backend holds three top-level buckets: "transactions"     *)
(* (8-byte big-endian index -> marshalled proto.TrackedTransaction),       *)
(* "transactionIdx" (transaction hash -> 8-byte index, plus the reserved   *)
(* key "ntk" holding the next index) and "inputs" (outpoint bytes ->       *)
(* transaction hash).  Byte strings are sequences of naturals below 256.   *)
(* A Go pointer that may be nil is a sequence of length at most one.       *)
(***************************************************************************)
EXTENDS Naturals, Integers, Sequences, FiniteSets, TLC

VARIABLES
    db,         \* the committed contents of the three buckets
    inserted,   \* history: the staking transactions whose insertion returned nil, in order
    unit,       \* the open read-write transaction of the backend, Nil when there is none
    callers,    \* the goroutines that call the store at the same time, and their calls
    service     \* the StakerService over the store and the goroutines that run it

vars == <<db, inserted, unit, callers, service>>

---------------------------------------------------------------------------
(* Bounds of the model *)

\* Confirmation heights handed to the transitions are 1..MaxHeight.
MaxHeight == 2

---------------------------------------------------------------------------
(* Optional values, errors *)

Nil == <<>>
Some(x) == <<x>>

ErrNone == "nil"
ErrCorruptedTransactionsDB == "ErrCorruptedTransactionsDB"
ErrTransactionNotFound == "ErrTransactionNotFound"
ErrDuplicateTransaction == "ErrDuplicateTransaction"
ErrUnbondingDataNotFound == "ErrUnbondingDataNotFound"
ErrInvalidUnbondingDataUpdate == "ErrInvalidUnbondingDataUpdate"
\* fmt.Errorf("cannot create unbonding tx data without unbonding tx")
ErrNoUnbondingTx == "ErrNoUnbondingTx"
\* any error of wire.MsgTx.Deserialize, pm.Unmarshal, chainhash.NewHash,
\* schnorr.Parse* or of the uint16 range checks
ErrDecode == "ErrDecode"
\* the errors of the RPC service: of getPageParams and of
\* chainhash.NewHashFromStr
ErrNegativePageParam == "ErrNegativePageParam"
ErrHashStr == "ErrHashStr"
\* any error an operation of the staker returns to a handler
ErrStaker == "ErrStaker"

\* the errors a caller's scanFunc returns
ErrScanFunc == "ErrScanFunc"
ErrScanFuncOther == "ErrScanFuncOther"

MaxUint16 == 65535

---------------------------------------------------------------------------
(* Byte encodings *)

\* the w-byte big-endian encoding of n
RECURSIVE BigEndianBytes(_, _)
BigEndianBytes(n, w) ==
    IF w = 0 THEN <<>> ELSE BigEndianBytes(n \div 256, w - 1) \o <<n % 256>>

\* binary.BigEndian.PutUint64 into a fresh 8-byte slice
uint64KeyToBytes(key) == BigEndianBytes(key, 8)

\* binary.BigEndian.Uint64
RECURSIVE BigEndianValue(_)
BigEndianValue(b) ==
    IF b = <<>> THEN 0
    ELSE 256 * BigEndianValue(SubSeq(b, 1, Len(b) - 1)) + b[Len(b)]

\* binary.Write(&buf, binary.BigEndian, op.Index) for a uint32
BigEndianUint32(n) == BigEndianBytes(n, 4)

\* outpointBytes that writes the output index as one byte
outpointBytesOneByteIndex(op) == op.Hash \o <<0, 0, 0, op.Index % 256>>

\* A previous-output reference: the 2-byte stand-in of the 32-byte hash of the
\* funding transaction, then the 4-byte big-endian output index.
outpointBytes(op) == op.Hash \o BigEndianUint32(op.Index)

RECURSIVE Concat(_)
Concat(ss) == IF ss = <<>> THEN <<>> ELSE Head(ss) \o Concat(Tail(ss))

\* utils.SerializeBtcTransaction / wire.MsgTx.Serialize, reduced to the
\* version, the input count and the inputs' previous outpoints.
SerializeBtcTransaction(tx) ==
    <<tx.Version, Len(tx.TxIn)>>
        \o Concat([i \in 1..Len(tx.TxIn) |-> outpointBytes(tx.TxIn[i])])

\* wire.MsgTx.Deserialize: the inverse on well-formed bytes, an error otherwise.
DeserializeOk(b) == Len(b) >= 2 /\ Len(b) = 2 + 6 * b[2]

Deserialize(b) ==
    IF ~DeserializeOk(b) THEN [err |-> ErrDecode, tx |-> Nil]
    ELSE [err |-> ErrNone,
          tx |-> Some([Version |-> b[1],
                       TxIn |-> [i \in 1..b[2] |->
                           [Hash |-> SubSeq(b, 6 * i - 3, 6 * i - 2),
                            Index |-> BigEndianValue(SubSeq(b, 6 * i - 1, 6 * i + 2))]]])]

\* wire.MsgTx.TxHash: a digest of the serialization.  The double SHA-256 is
\* replaced by a 2-byte polynomial digest that is collision free on the
\* transactions of the model (HashCollisionFree).
RECURSIVE Digest(_)
Digest(b) ==
    IF b = <<>> THEN 7
    ELSE (31 * Digest(SubSeq(b, 1, Len(b) - 1)) + b[Len(b)]) % 65536

TxHash(tx) ==
    BigEndianBytes(Digest(SerializeBtcTransaction(tx)), 2)

---------------------------------------------------------------------------
(* The protobuf wire format of package proto (pm.Marshal / pm.Unmarshal).   *)
(* A marshalled message is the sequence of its fields <<number, payload>>   *)
(* in field order.  proto3 writes no field for a zero number, an empty      *)
(* byte string, a nil message or an empty repeated field; a non-nil         *)
(* message is written even when all of its fields are default.  The field  *)
(* numbers are the positions of the fields in the messages.                *)

VarintField(n, v) == IF v = 0 THEN <<>> ELSE << <<n, <<v>> >> >>
BytesField(n, b) == IF Len(b) = 0 THEN <<>> ELSE << <<n, b>> >>
\* an embedded message field, once per marshalled message: none for a nil
\* message, one for a message, one per element of a repeated field
MessageFields(n, payloads) == [i \in 1..Len(payloads) |-> <<n, payloads[i]>>]

Entries(b, n) == SelectSeq(b, LAMBDA e : e[1] = n)
VarintOf(b, n) ==
    LET es == Entries(b, n) IN IF Len(es) = 0 THEN 0 ELSE es[Len(es)][2][1]
BytesOf(b, n) ==
    LET es == Entries(b, n) IN IF Len(es) = 0 THEN <<>> ELSE es[Len(es)][2]
\* the payloads of the embedded message field n, in order
PayloadsOf(b, n) ==
    LET es == Entries(b, n) IN [i \in 1..Len(es) |-> es[i][2]]
\* the payload of a singular embedded message field: the last one written
LastPayload(b, n) ==
    LET ps == PayloadsOf(b, n) IN IF Len(ps) = 0 THEN Nil ELSE Some(ps[Len(ps)])

MarshalBTCConfirmationInfo(ci) ==
    BytesField(1, ci.BlockHash) \o VarintField(2, ci.BlockHeight)

UnmarshalBTCConfirmationInfo(b) ==
    [BlockHash |-> BytesOf(b, 1), BlockHeight |-> VarintOf(b, 2)]

MarshalCovenantSig(c) ==
    BytesField(1, c.CovenantSig) \o BytesField(2, c.CovenantSigBtcPk)

UnmarshalCovenantSig(b) ==
    [CovenantSig |-> BytesOf(b, 1), CovenantSigBtcPk |-> BytesOf(b, 2)]

MarshalUnbondingTxData(ud) ==
    BytesField(1, ud.UnbondingTransaction)
        \o VarintField(2, ud.UnbondingTime)
        \o MessageFields(3, [i \in 1..Len(ud.CovenantSignatures) |->
                                 MarshalCovenantSig(ud.CovenantSignatures[i])])
        \o MessageFields(4, [i \in 1..Len(ud.UnbondingTxBtcConfirmationInfo) |->
                                 MarshalBTCConfirmationInfo(
                                     ud.UnbondingTxBtcConfirmationInfo[i])])

UnmarshalUnbondingTxData(b) ==
    [UnbondingTransaction |-> BytesOf(b, 1),
     UnbondingTime |-> VarintOf(b, 2),
     CovenantSignatures |->
         [i \in 1..Len(PayloadsOf(b, 3)) |-> UnmarshalCovenantSig(PayloadsOf(b, 3)[i])],
     UnbondingTxBtcConfirmationInfo |->
         [i \in 1..Len(LastPayload(b, 4)) |->
             UnmarshalBTCConfirmationInfo(LastPayload(b, 4)[i])]]

\* pm.Marshal(tx) of a proto.TrackedTransaction
Marshal(tx) ==
    VarintField(1, tx.TrackedTransactionIdx)
        \o BytesField(2, tx.StakingTransaction)
        \o VarintField(3, tx.StakingOutputIdx)
        \o MessageFields(4, [i \in 1..Len(tx.StakingTxBtcConfirmationInfo) |->
                                 MarshalBTCConfirmationInfo(
                                     tx.StakingTxBtcConfirmationInfo[i])])
        \o VarintField(5, tx.StakingTime)
        \o BytesField(6, tx.StakerAddress)
        \o MessageFields(7, [i \in 1..Len(tx.UnbondingTxData) |->
                                 MarshalUnbondingTxData(tx.UnbondingTxData[i])])
        \o BytesField(8, tx.BabylonBTCDelegationTxHash)

\* pm.Unmarshal(bytes, &storedTx): field number 0 is not a legal tag.
UnmarshalOk(b) == \A i \in 1..Len(b) : b[i][1] # 0

Unmarshal(b) ==
    IF ~UnmarshalOk(b) THEN [err |-> ErrDecode, tx |-> Nil]
    ELSE [err |-> ErrNone,
          tx |-> Some(
            [TrackedTransactionIdx |-> VarintOf(b, 1),
             StakingTransaction |-> BytesOf(b, 2),
             StakingOutputIdx |-> VarintOf(b, 3),
             StakingTxBtcConfirmationInfo |->
                 [i \in 1..Len(LastPayload(b, 4)) |->
                     UnmarshalBTCConfirmationInfo(LastPayload(b, 4)[i])],
             StakingTime |-> VarintOf(b, 5),
             StakerAddress |-> BytesOf(b, 6),
             UnbondingTxData |->
                 [i \in 1..Len(LastPayload(b, 7)) |->
                     UnmarshalUnbondingTxData(LastPayload(b, 7)[i])],
             BabylonBTCDelegationTxHash |-> BytesOf(b, 8)])]

---------------------------------------------------------------------------
(* Decoding a proto message into the in-memory StoredTransaction *)

\* covenantSigToProto: Signature.Serialize() and schnorr.SerializePubKey
covenantSigToProto(c) ==
    [CovenantSig |-> c.Signature, CovenantSigBtcPk |-> c.PubKey]

covenantSigsToProto(c) == [i \in 1..Len(c) |-> covenantSigToProto(c[i])]

\* schnorr.ParseSignature / schnorr.ParsePubKey accept only the fixed widths
\* (2 and 1 bytes here for the 64 and 32 bytes of the library).
covenantSigFromProto(c) ==
    IF Len(c.CovenantSig) # 2 \/ Len(c.CovenantSigBtcPk) # 1
    THEN [err |-> ErrDecode, sig |-> Nil]
    ELSE [err |-> ErrNone,
          sig |-> Some([Signature |-> c.CovenantSig, PubKey |-> c.CovenantSigBtcPk])]

\* the conversion that makes a zero-valued confirmation of a nil one
protoBtcConfirmationInfoToBtcConfirmationInfoZeroForNil(ci) ==
    IF Len(ci) = 0
    THEN [err |-> ErrNone, ci |-> Some([Height |-> 0, BlockHash |-> <<0, 0>>])]
    ELSE IF Len(ci[1].BlockHash) # 2 THEN [err |-> ErrDecode, ci |-> Nil]
    ELSE [err |-> ErrNone,
          ci |-> Some([Height |-> ci[1].BlockHeight, BlockHash |-> ci[1].BlockHash])]

\* chainhash.NewHash accepts only the fixed hash width (2 bytes here).
protoBtcConfirmationInfoToBtcConfirmationInfo(ci) ==
    IF Len(ci) = 0 THEN [err |-> ErrNone, ci |-> Nil]
    ELSE IF Len(ci[1].BlockHash) # 2 THEN [err |-> ErrDecode, ci |-> Nil]
    ELSE [err |-> ErrNone,
          ci |-> Some([Height |-> ci[1].BlockHeight, BlockHash |-> ci[1].BlockHash])]

protoUnbondingDataToUnbondingStoreData(ud) ==
    LET utx == Deserialize(ud.UnbondingTransaction)
        sigs == [i \in 1..Len(ud.CovenantSignatures) |->
                    covenantSigFromProto(ud.CovenantSignatures[i])]
        uci == protoBtcConfirmationInfoToBtcConfirmationInfo(
                    ud.UnbondingTxBtcConfirmationInfo)
    IN  IF utx.err # ErrNone THEN [err |-> utx.err, ud |-> Nil]
        ELSE IF ud.UnbondingTime > MaxUint16 THEN [err |-> ErrDecode, ud |-> Nil]
        ELSE IF \E i \in 1..Len(sigs) : sigs[i].err # ErrNone
             THEN [err |-> ErrDecode, ud |-> Nil]
        ELSE IF uci.err # ErrNone THEN [err |-> uci.err, ud |-> Nil]
        ELSE [err |-> ErrNone,
              ud |-> Some([UnbondingTx |-> utx.tx[1],
                           UnbondingTime |-> ud.UnbondingTime,
                           CovenantSignatures |-> [i \in 1..Len(sigs) |-> sigs[i].sig[1]],
                           UnbondingTxConfirmationInfo |-> uci.ci])]

protoTxToStoredTransaction(ttx) ==
    LET stx == Deserialize(ttx.StakingTransaction)
        utd == IF Len(ttx.UnbondingTxData) # 0
               THEN protoUnbondingDataToUnbondingStoreData(ttx.UnbondingTxData[1])
               ELSE [err |-> ErrNone, ud |-> Nil]
        sci == protoBtcConfirmationInfoToBtcConfirmationInfo(
                    ttx.StakingTxBtcConfirmationInfo)
    IN  IF stx.err # ErrNone THEN [err |-> stx.err, tx |-> Nil]
        ELSE IF utd.err # ErrNone THEN [err |-> utd.err, tx |-> Nil]
        ELSE IF sci.err # ErrNone THEN [err |-> sci.err, tx |-> Nil]
        ELSE IF ttx.StakingTime > MaxUint16 THEN [err |-> ErrDecode, tx |-> Nil]
        ELSE [err |-> ErrNone,
              tx |-> Some([StoredTransactionIdx |-> ttx.TrackedTransactionIdx,
                           StakingTx |-> stx.tx[1],
                           StakingOutputIndex |-> ttx.StakingOutputIdx,
                           StakingTxConfirmationInfo |-> sci.ci,
                           StakingTime |-> ttx.StakingTime,
                           StakerAddress |-> ttx.StakerAddress,
                           UnbondingTxData |-> utd.ud,
                           BabylonBTCDelegationTxHash |-> ttx.BabylonBTCDelegationTxHash])]

---------------------------------------------------------------------------
(* The key-value backend: a bucket is a function from keys to values *)

transactionBucketName == "transactions"
transactionIndexName == "transactionIdx"
inputsDataBucketName == "inputs"

\* []byte("ntk"): three bytes, so never equal to a transaction hash
numTxKey == <<110, 116, 107>>

EmptyBucket == [k \in {} |-> <<>>]

\* bucket.Get: nil (Nil) for a missing key
BucketGet(b, k) == IF k \in DOMAIN b THEN Some(b[k]) ELSE Nil

\* bucket.Put
BucketPut(b, k, v) == [x \in DOMAIN b \cup {k} |-> IF x = k THEN v ELSE b[x]]

\* NewTrackedTransactionStore / initBuckets on a fresh backend
initBuckets ==
    [transactions |-> EmptyBucket,
     transactionIdx |-> EmptyBucket,
     inputs |-> EmptyBucket]

\* one bucket.Put of a read-write transaction
Write(bucket, key, value) == [bucket |-> bucket, key |-> key, value |-> value]

ApplyWrite(store, w) == [store EXCEPT ![w.bucket] = BucketPut(@, w.key, w.value)]

RECURSIVE ApplyWrites(_, _)
ApplyWrites(store, ws) ==
    IF Len(ws) = 0 THEN store ELSE ApplyWrites(ApplyWrite(store, Head(ws)), Tail(ws))

\* kvdb.Batch(c.db, f).  f is the outcome of the closure on its read-write
\* transaction: the Puts it made, in order, and the error it returned.  The
\* Puts are committed together when the error is nil and rolled back otherwise.
Batch(store, f) ==
    [err |-> f.err,
     db |-> IF f.err = ErrNone THEN ApplyWrites(store, f.writes) ELSE store]

\* the kvdb.Batch calls of one exported call, one after the other; the first
\* error ends the call
RECURSIVE RunBatches(_, _)
RunBatches(store, fs) ==
    IF Len(fs) = 0 THEN [err |-> ErrNone, db |-> store]
    ELSE LET r == Batch(store, Head(fs))
         IN  IF r.err # ErrNone THEN r ELSE RunBatches(r.db, Tail(fs))

---------------------------------------------------------------------------
(* The store *)

nextTxKey(txIdxBucket) ==
    LET numTxBytes == BucketGet(txIdxBucket, numTxKey)
    IN  IF Len(numTxBytes) = 0 THEN 1 ELSE BigEndianValue(numTxBytes[1])

getNumTx(txIdxBucket) == nextTxKey(txIdxBucket) - 1

\* getTxByHash that reports a missing hash as a corrupted store
getTxByHashMissingIsCorrupted(txHashBytes, txIndexBucket, txBucket) ==
    LET txKey == BucketGet(txIndexBucket, txHashBytes)
        maybeTx == IF Len(txKey) = 0 THEN Nil ELSE BucketGet(txBucket, txKey[1])
    IN  IF Len(txKey) = 0 \/ Len(maybeTx) = 0
        THEN [err |-> ErrCorruptedTransactionsDB, maybeTx |-> Nil, txKey |-> Nil]
        ELSE [err |-> ErrNone, maybeTx |-> maybeTx, txKey |-> txKey]

getTxByHash(txHashBytes, txIndexBucket, txBucket) ==
    LET txKey == BucketGet(txIndexBucket, txHashBytes)
        maybeTx == IF Len(txKey) = 0 THEN Nil ELSE BucketGet(txBucket, txKey[1])
    IN  IF Len(txKey) = 0
        THEN [err |-> ErrTransactionNotFound, maybeTx |-> Nil, txKey |-> Nil]
        ELSE IF Len(maybeTx) = 0
        THEN [err |-> ErrCorruptedTransactionsDB, maybeTx |-> Nil, txKey |-> Nil]
        ELSE [err |-> ErrNone, maybeTx |-> maybeTx, txKey |-> txKey]

\* saveTrackedTransaction that indexes the hash under the advanced counter
saveTrackedTransactionIndexesNextKey(rwTx, txHashBytes, tx, id) ==
    LET nextKey == nextTxKey(rwTx.transactionIdx)
        marshalled == Marshal([tx EXCEPT !.TrackedTransactionIdx = nextKey])
    IN  [err |-> ErrNone,
         writes |->
            <<Write(transactionBucketName, uint64KeyToBytes(nextKey), marshalled),
              Write(transactionIndexName, txHashBytes, uint64KeyToBytes(nextKey + 1))>>
            \o [i \in 1..Len(id.inputs) |->
                   Write(inputsDataBucketName, id.inputs[i], txHashBytes)]
            \o <<Write(transactionIndexName, numTxKey, uint64KeyToBytes(nextKey + 1))>>]

\* saveTrackedTransaction that writes the counter back without advancing it
saveTrackedTransactionStaleCounter(rwTx, txHashBytes, tx, id) ==
    LET nextKey == nextTxKey(rwTx.transactionIdx)
        marshalled == Marshal([tx EXCEPT !.TrackedTransactionIdx = nextKey])
        nextTxKeyBytes == uint64KeyToBytes(nextKey)
    IN  [err |-> ErrNone,
         writes |->
            <<Write(transactionBucketName, nextTxKeyBytes, marshalled),
              Write(transactionIndexName, txHashBytes, nextTxKeyBytes)>>
            \o [i \in 1..Len(id.inputs) |->
                   Write(inputsDataBucketName, id.inputs[i], txHashBytes)]
            \o <<Write(transactionIndexName, numTxKey, uint64KeyToBytes(nextKey))>>]

\* saveTrackedTransaction that maps the inputs to the key of the record
\* instead of the hash of the transaction
saveTrackedTransactionInputsToKey(rwTx, txHashBytes, tx, id) ==
    LET nextKey == nextTxKey(rwTx.transactionIdx)
        marshalled == Marshal([tx EXCEPT !.TrackedTransactionIdx = nextKey])
        nextTxKeyBytes == uint64KeyToBytes(nextKey)
    IN  [err |-> ErrNone,
         writes |->
            <<Write(transactionBucketName, nextTxKeyBytes, marshalled),
              Write(transactionIndexName, txHashBytes, nextTxKeyBytes)>>
            \o [i \in 1..Len(id.inputs) |->
                   Write(inputsDataBucketName, id.inputs[i], nextTxKeyBytes)]
            \o <<Write(transactionIndexName, numTxKey, uint64KeyToBytes(nextKey + 1))>>]

\* The outcome of saveTrackedTransaction on the read-write transaction rwTx:
\* the record, the hash index entry, one entry per input, the counter.
\* tx and id are never nil in the calls of this package.
saveTrackedTransaction(rwTx, txHashBytes, tx, id) ==
    LET nextKey == nextTxKey(rwTx.transactionIdx)
        marshalled == Marshal([tx EXCEPT !.TrackedTransactionIdx = nextKey])
        nextTxKeyBytes == uint64KeyToBytes(nextKey)
    IN  [err |-> ErrNone,
         writes |->
            <<Write(transactionBucketName, nextTxKeyBytes, marshalled),
              Write(transactionIndexName, txHashBytes, nextTxKeyBytes)>>
            \o [i \in 1..Len(id.inputs) |->
                   Write(inputsDataBucketName, id.inputs[i], txHashBytes)]
            \o <<Write(transactionIndexName, numTxKey, uint64KeyToBytes(nextKey + 1))>>]

\* the closure that refuses a transaction an input of which is in the
\* outpoint index
addTransactionInternalClosureRefusesUsedInput(store, txHashBytes, tt, id) ==
    IF Len(BucketGet(store.transactionIdx, txHashBytes)) # 0
    THEN [err |-> ErrDuplicateTransaction, writes |-> <<>>]
    ELSE IF \E i \in 1..Len(id.inputs) : Len(BucketGet(store.inputs, id.inputs[i])) # 0
    THEN [err |-> ErrDuplicateTransaction, writes |-> <<>>]
    ELSE saveTrackedTransaction(store, txHashBytes, tt, id)

\* the closure addTransactionInternal hands to kvdb.Batch
addTransactionInternalClosure(store, txHashBytes, tt, id) ==
    IF Len(BucketGet(store.transactionIdx, txHashBytes)) # 0
    THEN [err |-> ErrDuplicateTransaction, writes |-> <<>>]
    ELSE saveTrackedTransaction(store, txHashBytes, tt, id)

\* addTransactionInternal that advances the counter in a kvdb.Batch of its own
addTransactionInternalCounterApart(store, txHashBytes, tt, id) ==
    LET f == addTransactionInternalClosure(store, txHashBytes, tt, id)
    IN  IF f.err # ErrNone THEN <<f>>
        ELSE <<[err |-> ErrNone, writes |-> SubSeq(f.writes, 1, Len(f.writes) - 1)],
               [err |-> ErrNone, writes |-> <<f.writes[Len(f.writes)]>>]>>

\* the kvdb.Batch calls of addTransactionInternal: one
addTransactionInternalBatches(store, txHashBytes, tt, id) ==
    <<addTransactionInternalClosure(store, txHashBytes, tt, id)>>

\* addTransactionInternal without the look-up of the hash in the index
addTransactionInternalNoDuplicateCheck(store, txHashBytes, tt, id) ==
    Batch(store, saveTrackedTransaction(store, txHashBytes, tt, id))

addTransactionInternal(store, txHashBytes, tt, id) ==
    RunBatches(store, addTransactionInternalBatches(store, txHashBytes, tt, id))

\* getInputData that takes the first input of the transaction only
getInputDataFirstInputOnly(tx) ==
    [inputs |-> [i \in 1..(IF Len(tx.TxIn) > 0 THEN 1 ELSE 0) |->
                    outpointBytes(tx.TxIn[i])],
     txHash |-> TxHash(tx)]

getInputData(tx) ==
    [inputs |-> [i \in 1..Len(tx.TxIn) |-> outpointBytes(tx.TxIn[i])],
     txHash |-> TxHash(tx)]

\* newInitialUnbondingTxData that returns no data and no error for a nil
\* unbonding transaction
newInitialUnbondingTxDataNilForNil(unbondingTx, unbondingTime) ==
    IF Len(unbondingTx) = 0 THEN [err |-> ErrNone, ud |-> Nil]
    ELSE [err |-> ErrNone,
          ud |-> Some([UnbondingTransaction |-> SerializeBtcTransaction(unbondingTx[1]),
                       UnbondingTime |-> unbondingTime,
                       CovenantSignatures |-> <<>>,
                       UnbondingTxBtcConfirmationInfo |-> Nil])]

\* unbondingTx is Nil for a nil *wire.MsgTx
newInitialUnbondingTxData(unbondingTx, unbondingTime) ==
    IF Len(unbondingTx) = 0 THEN [err |-> ErrNoUnbondingTx, ud |-> Nil]
    ELSE [err |-> ErrNone,
          ud |-> Some([UnbondingTransaction |-> SerializeBtcTransaction(unbondingTx[1]),
                       UnbondingTime |-> unbondingTime,
                       CovenantSignatures |-> <<>>,
                       UnbondingTxBtcConfirmationInfo |-> Nil])]

\* the message AddTransactionSentToBabylon builds for addTransactionInternal
SentToBabylonMessage(btcTx, stakingOutputIndex, stakingTime, stakerAddress, update, btcDelTxHash) ==
    [TrackedTransactionIdx |-> 0,
     StakingTransaction |-> SerializeBtcTransaction(btcTx),
     StakingOutputIdx |-> stakingOutputIndex,
     StakerAddress |-> stakerAddress,
     StakingTime |-> stakingTime,
     StakingTxBtcConfirmationInfo |-> Nil,
     UnbondingTxData |-> update,
     BabylonBTCDelegationTxHash |-> btcDelTxHash]

AddTransactionSentToBabylon(store, btcTx, stakingOutputIndex, stakingTime, stakerAddress, unbondingTx, unbondingTime, btcDelTxHash) ==
    LET update == newInitialUnbondingTxData(unbondingTx, unbondingTime)
        msg == SentToBabylonMessage(btcTx, stakingOutputIndex, stakingTime,
                                    stakerAddress, update.ud, btcDelTxHash)
    IN  IF update.err # ErrNone THEN [err |-> update.err, db |-> store]
        ELSE addTransactionInternal(store, TxHash(btcTx), msg, getInputData(btcTx))

\* setTxConfirmed that keeps a confirmation of a higher block
setTxConfirmedKeepsHighest(tx, blockHash, blockHeight) ==
    IF /\ Len(tx.StakingTxBtcConfirmationInfo) # 0
       /\ tx.StakingTxBtcConfirmationInfo[1].BlockHeight > blockHeight
    THEN [err |-> ErrNone, tx |-> tx]
    ELSE [err |-> ErrNone,
          tx |-> [tx EXCEPT !.StakingTxBtcConfirmationInfo =
                     Some([BlockHash |-> blockHash, BlockHeight |-> blockHeight])]]

\* setTxConfirmed that builds the message anew and loses its index
setTxConfirmedFreshMessage(tx, blockHash, blockHeight) ==
    [err |-> ErrNone,
     tx |-> [tx EXCEPT !.TrackedTransactionIdx = 0,
                       !.StakingTxBtcConfirmationInfo =
                           Some([BlockHash |-> blockHash, BlockHeight |-> blockHeight])]]

setTxConfirmed(tx, blockHash, blockHeight) ==
    [err |-> ErrNone,
     tx |-> [tx EXCEPT !.StakingTxBtcConfirmationInfo =
                Some([BlockHash |-> blockHash, BlockHeight |-> blockHeight])]]

\* setDelegationActiveOnBabylon that leaves a confirmation already stored
setDelegationActiveOnBabylonKeepsConfirmation(tx, blockHash, blockHeight) ==
    IF Len(tx.StakingTxBtcConfirmationInfo) # 0 THEN [err |-> ErrNone, tx |-> tx]
    ELSE [err |-> ErrNone,
          tx |-> [tx EXCEPT !.StakingTxBtcConfirmationInfo =
                     Some([BlockHash |-> blockHash, BlockHeight |-> blockHeight])]]

setDelegationActiveOnBabylon(tx, blockHash, blockHeight) ==
    [err |-> ErrNone,
     tx |-> [tx EXCEPT !.StakingTxBtcConfirmationInfo =
                Some([BlockHash |-> blockHash, BlockHeight |-> blockHeight])]]

\* setUnbondingSignaturesReceived without the test of the stored signatures
setUnbondingSignaturesReceivedNoCheck(tx, covenantSignatures) ==
    IF Len(tx.UnbondingTxData) = 0
    THEN [err |-> ErrUnbondingDataNotFound, tx |-> tx]
    ELSE [err |-> ErrNone,
          tx |-> [tx EXCEPT !.UnbondingTxData[1].CovenantSignatures =
                     covenantSigsToProto(covenantSignatures)]]

setUnbondingSignaturesReceived(tx, covenantSignatures) ==
    IF Len(tx.UnbondingTxData) = 0
    THEN [err |-> ErrUnbondingDataNotFound, tx |-> tx]
    ELSE IF Len(tx.UnbondingTxData[1].CovenantSignatures) > 0
    THEN [err |-> ErrInvalidUnbondingDataUpdate, tx |-> tx]
    ELSE [err |-> ErrNone,
          tx |-> [tx EXCEPT !.UnbondingTxData[1].CovenantSignatures =
                     covenantSigsToProto(covenantSignatures)]]

\* setUnbondingConfirmedOnBtc that builds the unbonding data anew and loses
\* the covenant signatures
setUnbondingConfirmedOnBtcResetsData(tx, blockHash, blockHeight) ==
    IF Len(tx.UnbondingTxData) = 0
    THEN [err |-> ErrUnbondingDataNotFound, tx |-> tx]
    ELSE [err |-> ErrNone,
          tx |-> [tx EXCEPT !.UnbondingTxData[1] =
                     [@ EXCEPT !.CovenantSignatures = <<>>,
                               !.UnbondingTxBtcConfirmationInfo =
                                   Some([BlockHash |-> blockHash,
                                         BlockHeight |-> blockHeight])]]]

\* setUnbondingConfirmedOnBtc that keeps a confirmation already stored
setUnbondingConfirmedOnBtcKeepsFirst(tx, blockHash, blockHeight) ==
    IF Len(tx.UnbondingTxData) = 0
    THEN [err |-> ErrUnbondingDataNotFound, tx |-> tx]
    ELSE IF Len(tx.UnbondingTxData[1].UnbondingTxBtcConfirmationInfo) # 0
    THEN [err |-> ErrNone, tx |-> tx]
    ELSE [err |-> ErrNone,
          tx |-> [tx EXCEPT !.UnbondingTxData[1].UnbondingTxBtcConfirmationInfo =
                     Some([BlockHash |-> blockHash, BlockHeight |-> blockHeight])]]

setUnbondingConfirmedOnBtc(tx, blockHash, blockHeight) ==
    IF Len(tx.UnbondingTxData) = 0
    THEN [err |-> ErrUnbondingDataNotFound, tx |-> tx]
    ELSE [err |-> ErrNone,
          tx |-> [tx EXCEPT !.UnbondingTxData[1].UnbondingTxBtcConfirmationInfo =
                     Some([BlockHash |-> blockHash, BlockHeight |-> blockHeight])]]

\* The function a setter hands to setTxState, called on the unmarshalled
\* message: fn names the function, the other fields are the variables it
\* captures.
stateTransitionFn(fn, tx) ==
    CASE fn.name = "setTxConfirmed" ->
            setTxConfirmed(tx, fn.blockHash, fn.blockHeight)
      [] fn.name = "setDelegationActiveOnBabylon" ->
            setDelegationActiveOnBabylon(tx, fn.blockHash, fn.blockHeight)
      [] fn.name = "setUnbondingSignaturesReceived" ->
            setUnbondingSignaturesReceived(tx, fn.covenantSignatures)
      [] fn.name = "setUnbondingConfirmedOnBtc" ->
            setUnbondingConfirmedOnBtc(tx, fn.blockHash, fn.blockHeight)

\* the closure of setTxState that advances the counter of the index as well
setTxStateClosureAdvancesCounter(store, txHash, fn) ==
    LET got == getTxByHash(txHash, store.transactionIdx, store.transactions)
        storedTx == Unmarshal(got.maybeTx[1])
        moved == stateTransitionFn(fn, storedTx.tx[1])
    IN  IF got.err # ErrNone THEN [err |-> got.err, writes |-> <<>>]
        ELSE IF storedTx.err # ErrNone
        THEN [err |-> ErrCorruptedTransactionsDB, writes |-> <<>>]
        ELSE IF moved.err # ErrNone THEN [err |-> moved.err, writes |-> <<>>]
        ELSE [err |-> ErrNone,
              writes |-> <<Write(transactionBucketName, got.txKey[1], Marshal(moved.tx)),
                           Write(transactionIndexName, numTxKey,
                                 uint64KeyToBytes(nextTxKey(store.transactionIdx) + 1))>>]

\* the closure setTxState hands to kvdb.Batch
setTxStateClosure(store, txHash, fn) ==
    LET got == getTxByHash(txHash, store.transactionIdx, store.transactions)
        storedTx == Unmarshal(got.maybeTx[1])
        moved == stateTransitionFn(fn, storedTx.tx[1])
    IN  IF got.err # ErrNone THEN [err |-> got.err, writes |-> <<>>]
        ELSE IF storedTx.err # ErrNone
        THEN [err |-> ErrCorruptedTransactionsDB, writes |-> <<>>]
        ELSE IF moved.err # ErrNone THEN [err |-> moved.err, writes |-> <<>>]
        ELSE [err |-> ErrNone,
              writes |-> <<Write(transactionBucketName, got.txKey[1], Marshal(moved.tx))>>]

setTxState(store, txHash, fn) ==
    Batch(store, setTxStateClosure(store, txHash, fn))

\* the functions the four setters hand to setTxState
ConfirmedFn(blockHash, blockHeight) ==
    [name |-> "setTxConfirmed", blockHash |-> blockHash, blockHeight |-> blockHeight]
DelegationActiveFn(blockHash, blockHeight) ==
    [name |-> "setDelegationActiveOnBabylon", blockHash |-> blockHash,
     blockHeight |-> blockHeight]
UnbondingSignaturesReceivedFn(covenantSignatures) ==
    [name |-> "setUnbondingSignaturesReceived", covenantSignatures |-> covenantSignatures]
UnbondingConfirmedFn(blockHash, blockHeight) ==
    [name |-> "setUnbondingConfirmedOnBtc", blockHash |-> blockHash,
     blockHeight |-> blockHeight]

SetTxConfirmed(store, txHash, blockHash, blockHeight) ==
    setTxState(store, txHash, ConfirmedFn(blockHash, blockHeight))

SetDelegationActiveOnBabylonAndConfirmedOnBtc(store, txHash, blockHash, blockHeight) ==
    setTxState(store, txHash, DelegationActiveFn(blockHash, blockHeight))

\* SetTxUnbondingSignaturesReceived that writes the signatures and reports
\* afterwards that signatures were already there
SetTxUnbondingSignaturesReceivedWritesFirst(store, txHash, covenantSignatures) ==
    LET r == setTxState(store, txHash, UnbondingSignaturesReceivedFn(covenantSignatures))
        got == getTxByHash(txHash, store.transactionIdx, store.transactions)
        written == setUnbondingSignaturesReceivedNoCheck(
                       Unmarshal(got.maybeTx[1]).tx[1], covenantSignatures).tx
    IN  IF r.err # ErrInvalidUnbondingDataUpdate THEN r
        ELSE [err |-> r.err,
              db |-> ApplyWrite(store, Write(transactionBucketName, got.txKey[1],
                                             Marshal(written)))]

SetTxUnbondingSignaturesReceived(store, txHash, covenantSignatures) ==
    setTxState(store, txHash, UnbondingSignaturesReceivedFn(covenantSignatures))

SetTxUnbondingConfirmedOnBtc(store, txHash, blockHash, blockHeight) ==
    setTxState(store, txHash, UnbondingConfirmedFn(blockHash, blockHeight))

GetTransaction(store, txHash) ==
    LET got == getTxByHash(txHash, store.transactionIdx, store.transactions)
        storedTxProto == Unmarshal(got.maybeTx[1])
        txFromDB == protoTxToStoredTransaction(storedTxProto.tx[1])
    IN  IF got.err # ErrNone THEN [err |-> got.err, tx |-> Nil]
        ELSE IF storedTxProto.err # ErrNone
        THEN [err |-> ErrCorruptedTransactionsDB, tx |-> Nil]
        ELSE IF txFromDB.err # ErrNone THEN [err |-> txFromDB.err, tx |-> Nil]
        ELSE [err |-> ErrNone, tx |-> txFromDB.tx]

OutpointUsed(store, op) ==
    Len(BucketGet(store.inputs, outpointBytes(op))) # 0

\* bytes.Compare(a, b) < 0: the order of a bucket's keys
RECURSIVE BytesLess(_, _)
BytesLess(a, b) ==
    IF Len(b) = 0 THEN FALSE
    ELSE IF Len(a) = 0 THEN TRUE
    ELSE IF Head(a) # Head(b) THEN Head(a) < Head(b)
    ELSE BytesLess(Tail(a), Tail(b))

\* the keys of a bucket in cursor order
RECURSIVE KeysInOrder(_)
KeysInOrder(keys) ==
    IF keys = {} THEN <<>>
    ELSE LET first == CHOOSE k \in keys : \A o \in keys \ {k} : BytesLess(k, o)
         IN  <<first>> \o KeysInOrder(keys \ {first})

\* The scanFunc of a caller: scanFunc[k] is what it returns for the
\* transaction of index k, and it returns nil where scanFunc says nothing.
scanFuncErr(scanFunc, tx) ==
    IF tx.StoredTransactionIdx \in DOMAIN scanFunc
    THEN scanFunc[tx.StoredTransactionIdx] ELSE ErrNone

\* ForEach that goes on after an error of scanFunc and returns the last one
RECURSIVE ForEachFromKeepsGoing(_, _, _, _, _)
ForEachFromKeepsGoing(bucket, keys, i, scanFunc, visited) ==
    IF i > Len(keys) THEN [err |-> ErrNone, visited |-> visited]
    ELSE LET txFromDB == protoTxToStoredTransaction(Unmarshal(bucket[keys[i]]).tx[1])
             rest == ForEachFromKeepsGoing(bucket, keys, i + 1, scanFunc,
                                           Append(visited, txFromDB.tx[1]))
         IN  IF rest.err # ErrNone THEN rest
             ELSE [err |-> scanFuncErr(scanFunc, txFromDB.tx[1]),
                   visited |-> rest.visited]

\* transactionsBucket.ForEach of ScanTrackedTransactions over the keys from
\* position i on: visited are the transactions handed to scanFunc.
RECURSIVE ForEachFrom(_, _, _, _, _)
ForEachFrom(bucket, keys, i, scanFunc, visited) ==
    IF i > Len(keys) THEN [err |-> ErrNone, visited |-> visited]
    ELSE LET storedTxProto == Unmarshal(bucket[keys[i]])
             txFromDB == protoTxToStoredTransaction(storedTxProto.tx[1])
         IN  IF storedTxProto.err # ErrNone
             THEN [err |-> ErrCorruptedTransactionsDB, visited |-> visited]
             ELSE IF txFromDB.err # ErrNone
             THEN [err |-> txFromDB.err, visited |-> visited]
             ELSE IF scanFuncErr(scanFunc, txFromDB.tx[1]) # ErrNone
             THEN [err |-> scanFuncErr(scanFunc, txFromDB.tx[1]),
                   visited |-> Append(visited, txFromDB.tx[1])]
             ELSE ForEachFrom(bucket, keys, i + 1, scanFunc,
                              Append(visited, txFromDB.tx[1]))

ScanTrackedTransactions(store, scanFunc) ==
    ForEachFrom(store.transactions, KeysInOrder(DOMAIN store.transactions), 1,
                scanFunc, <<>>)

---------------------------------------------------------------------------
(* QueryStoredTransactions.  A query q has the fields IndexOffset,          *)
(* NumMaxTransactions, Reversed and withdrawableTransactionsFilter, the    *)
(* last Nil or Some([currentBestBlockHeight |-> h]).                        *)

StakingTxConfirmedOnBtc(t) == Len(t.StakingTxConfirmationInfo) # 0

UnbondingTxConfirmedOnBtc(t) ==
    IF Len(t.UnbondingTxData) = 0 THEN FALSE
    ELSE Len(t.UnbondingTxData[1].UnbondingTxConfirmationInfo) # 0

\* isTimeLockExpired that takes the best block for the next one
isTimeLockExpiredAtBestBlock(confirmationBlockHeight, lockTime, currentBestBlockHeight) ==
    currentBestBlockHeight - confirmationBlockHeight - lockTime >= 0

\* the three numbers are widened to int64 before the subtraction
isTimeLockExpired(confirmationBlockHeight, lockTime, currentBestBlockHeight) ==
    LET nexBlockHeight == currentBestBlockHeight + 1
        pastLock == nexBlockHeight - confirmationBlockHeight - lockTime
    IN  pastLock >= 0

\* An int64 in two parts, for the heights above 2^31: the number is
\* hi * 2^16 + lo with lo from 0 to 2^16 - 1; hi carries the sign.
Int64(hi, lo) == [hi |-> hi, lo |-> lo]
Int64Sub(a, b) ==
    Int64(a.hi - b.hi - (IF a.lo < b.lo THEN 1 ELSE 0), (a.lo - b.lo) % (MaxUint16 + 1))
Int64Add(a, b) ==
    Int64(a.hi + b.hi + (a.lo + b.lo) \div (MaxUint16 + 1), (a.lo + b.lo) % (MaxUint16 + 1))
Int64LessEq(a, b) == a.hi < b.hi \/ (a.hi = b.hi /\ a.lo <= b.lo)

\* isTimeLockExpired that adds one to the best height as a uint32
isTimeLockExpiredInt64NextWraps(confirmationBlockHeight, lockTime, currentBestBlockHeight) ==
    LET sum == Int64Add(currentBestBlockHeight, Int64(0, 1))
        nexBlockHeight == Int64(sum.hi % (MaxUint16 + 1), sum.lo)
        pastLock == Int64Sub(Int64Sub(nexBlockHeight, confirmationBlockHeight), lockTime)
    IN  Int64LessEq(Int64(0, 0), pastLock)

\* isTimeLockExpired on numbers in two parts: the heights are uint32, the
\* lock time is uint16, each widened to int64
isTimeLockExpiredInt64(confirmationBlockHeight, lockTime, currentBestBlockHeight) ==
    LET nexBlockHeight == Int64Add(currentBestBlockHeight, Int64(0, 1))
        pastLock == Int64Sub(Int64Sub(nexBlockHeight, confirmationBlockHeight), lockTime)
    IN  Int64LessEq(Int64(0, 0), pastLock)

\* the switch of accumulateTransactions under a withdrawable filter
timeLockExpired(txFromDB, currentBestBlockHeight) ==
    IF StakingTxConfirmedOnBtc(txFromDB) /\ ~UnbondingTxConfirmedOnBtc(txFromDB)
    THEN isTimeLockExpired(txFromDB.StakingTxConfirmationInfo[1].Height,
                           txFromDB.StakingTime, currentBestBlockHeight)
    ELSE IF StakingTxConfirmedOnBtc(txFromDB) /\ UnbondingTxConfirmedOnBtc(txFromDB)
    THEN isTimeLockExpired(
             txFromDB.UnbondingTxData[1].UnbondingTxConfirmationInfo[1].Height,
             txFromDB.UnbondingTxData[1].UnbondingTime, currentBestBlockHeight)
    ELSE FALSE

\* accumulateTransactions that reports a record the filter rejects as added
accumulateTransactionsCountsRejected(transaction, q) ==
    LET protoTx == Unmarshal(transaction)
        txFromDB == protoTxToStoredTransaction(protoTx.tx[1])
    IN  IF protoTx.err # ErrNone
        THEN [added |-> FALSE, err |-> protoTx.err, tx |-> Nil]
        ELSE IF txFromDB.err # ErrNone
        THEN [added |-> FALSE, err |-> txFromDB.err, tx |-> Nil]
        ELSE IF Len(q.withdrawableTransactionsFilter) # 0
        THEN IF timeLockExpired(txFromDB.tx[1],
                                q.withdrawableTransactionsFilter[1].currentBestBlockHeight)
             THEN [added |-> TRUE, err |-> ErrNone, tx |-> txFromDB.tx]
             ELSE [added |-> TRUE, err |-> ErrNone, tx |-> Nil]
        ELSE [added |-> TRUE, err |-> ErrNone, tx |-> txFromDB.tx]

\* accumulateTransactions on the value of one key: added is what it returns
\* to the paginator, tx the transaction it appends to resp.Transactions (Nil
\* when it appends none)
accumulateTransactions(transaction, q) ==
    LET protoTx == Unmarshal(transaction)
        txFromDB == protoTxToStoredTransaction(protoTx.tx[1])
    IN  IF protoTx.err # ErrNone
        THEN [added |-> FALSE, err |-> protoTx.err, tx |-> Nil]
        ELSE IF txFromDB.err # ErrNone
        THEN [added |-> FALSE, err |-> txFromDB.err, tx |-> Nil]
        ELSE IF Len(q.withdrawableTransactionsFilter) # 0
        THEN IF timeLockExpired(txFromDB.tx[1],
                                q.withdrawableTransactionsFilter[1].currentBestBlockHeight)
             THEN [added |-> TRUE, err |-> ErrNone, tx |-> txFromDB.tx]
             ELSE [added |-> FALSE, err |-> ErrNone, tx |-> Nil]
        ELSE [added |-> TRUE, err |-> ErrNone, tx |-> txFromDB.tx]

\* a slice back to front
ReverseSlice(transactions) ==
    [i \in 1..Len(transactions) |-> transactions[Len(transactions) + 1 - i]]

\* The paginator: the keys it visits, in the order of the visits.  Forward
\* it begins at the (O+1)-th smallest key, reversed it leaves out the O
\* largest keys and walks backward.
paginatorKeys(keys, reversed, indexOffset) ==
    IF reversed THEN ReverseSlice(SubSeq(keys, 1, Len(keys) - indexOffset))
    ELSE SubSeq(keys, indexOffset + 1, Len(keys))

\* paginator.query from the i-th key to visit on: a record is fetched while
\* fewer than totalItems records were added (fetched counts them); an error
\* of the fetch ends the walk
RECURSIVE paginatorQuery(_, _, _, _, _, _, _)
paginatorQuery(bucket, keys, i, totalItems, q, fetched, transactions) ==
    IF i > Len(keys) \/ fetched >= totalItems
    THEN [err |-> ErrNone, Transactions |-> transactions]
    ELSE LET r == accumulateTransactions(bucket[keys[i]], q)
         IN  IF r.err # ErrNone
             THEN [err |-> r.err, Transactions |-> transactions]
             ELSE paginatorQuery(bucket, keys, i + 1, totalItems, q,
                                 IF r.added THEN fetched + 1 ELSE fetched,
                                 transactions \o r.tx)

\* the response of QueryStoredTransactions from the outcome of the paginator
QueryResponse(numTransactions, page, q) ==
    IF numTransactions = 0
    THEN [err |-> ErrNone, Transactions |-> <<>>, Total |-> 0]
    ELSE IF page.err # ErrNone
    THEN [err |-> page.err, Transactions |-> page.Transactions,
          Total |-> numTransactions]
    ELSE [err |-> ErrNone,
          Transactions |-> IF q.Reversed THEN ReverseSlice(page.Transactions)
                           ELSE page.Transactions,
          Total |-> numTransactions]

\* QueryStoredTransactions that leaves a page walked backward as it is
QueryStoredTransactionsNoReversal(store, q) ==
    LET r == QueryResponse(getNumTx(store.transactionIdx),
               paginatorQuery(store.transactions,
                   paginatorKeys(KeysInOrder(DOMAIN store.transactions),
                                 q.Reversed, q.IndexOffset),
                   1, q.NumMaxTransactions, q, 0, <<>>),
               [q EXCEPT !.Reversed = FALSE])
    IN  r

\* QueryStoredTransactions that reverses every page
QueryStoredTransactionsAlwaysReverses(store, q) ==
    LET r == QueryResponse(getNumTx(store.transactionIdx),
               paginatorQuery(store.transactions,
                   paginatorKeys(KeysInOrder(DOMAIN store.transactions),
                                 q.Reversed, q.IndexOffset),
                   1, q.NumMaxTransactions, q, 0, <<>>),
               [q EXCEPT !.Reversed = TRUE])
    IN  r

\* QueryStoredTransactions that reports the length of the page as the total
QueryStoredTransactionsTotalOfPage(store, q) ==
    LET r == QueryResponse(getNumTx(store.transactionIdx),
               paginatorQuery(store.transactions,
                   paginatorKeys(KeysInOrder(DOMAIN store.transactions),
                                 q.Reversed, q.IndexOffset),
                   1, q.NumMaxTransactions, q, 0, <<>>),
               q)
    IN  [r EXCEPT !.Total = Len(r.Transactions)]

QueryStoredTransactions(store, q) ==
    QueryResponse(getNumTx(store.transactionIdx),
        paginatorQuery(store.transactions,
            paginatorKeys(KeysInOrder(DOMAIN store.transactions),
                          q.Reversed, q.IndexOffset),
            1, q.NumMaxTransactions, q, 0, <<>>),
        q)

---------------------------------------------------------------------------
(* The calls the model makes: small sets of arguments *)

OutPoint(hash, index) == [Hash |-> hash, Index |-> index]

\* hashes of the transactions that fund the staking transactions
FundingHashA == <<170, 1>>
FundingHashB == <<170, 2>>

\* The staking transactions: the first spends two outputs, the second spends
\* an output the first spends too, the third spends one of another funding
\* transaction at an index above 255.
StakingTxA ==
    [Version |-> 1, TxIn |-> <<OutPoint(FundingHashA, 0), OutPoint(FundingHashA, 1)>>]
StakingTxB == [Version |-> 2, TxIn |-> <<OutPoint(FundingHashA, 1)>>]
StakingTxC == [Version |-> 2, TxIn |-> <<OutPoint(FundingHashB, 256)>>]

StakingTxs == {StakingTxA, StakingTxB, StakingTxC}

\* the outpoints OutpointUsed is asked about
OutPoints ==
    {OutPoint(h, i) : h \in {FundingHashA, FundingHashB}, i \in {0, 1, 256}}

TxHashes == {TxHash(tx) : tx \in StakingTxs}

UnbondingTxA == [Version |-> 2, TxIn |-> <<OutPoint(<<187, 1>>, 0)>>]
UnbondingTxB == [Version |-> 2, TxIn |-> <<OutPoint(<<187, 2>>, 1)>>]

\* the arguments of AddTransactionSentToBabylon other than the staking
\* transaction; the third has a nil unbonding transaction
InsertArgsA ==
    [stakingOutputIndex |-> 0, stakingTime |-> 10, stakerAddress |-> <<97>>,
     unbondingTx |-> Some(UnbondingTxA), unbondingTime |-> 5, btcDelTxHash |-> <<100>>]
InsertArgsB ==
    [stakingOutputIndex |-> 1, stakingTime |-> MaxUint16, stakerAddress |-> <<98>>,
     unbondingTx |-> Some(UnbondingTxB), unbondingTime |-> 7, btcDelTxHash |-> <<>>]
InsertArgsNoUnbonding ==
    [stakingOutputIndex |-> 0, stakingTime |-> 10, stakerAddress |-> <<97>>,
     unbondingTx |-> Nil, unbondingTime |-> 5, btcDelTxHash |-> <<100>>]

InsertArgs == {InsertArgsA, InsertArgsB, InsertArgsNoUnbonding}

\* the block at a height, and its hash
Heights == 1..MaxHeight
BlockHashAt(height) == <<204, height>>

CovenantSigA == [Signature |-> <<1, 2>>, PubKey |-> <<3>>]
CovenantSigB == [Signature |-> <<4, 5>>, PubKey |-> <<6>>]

\* the signature collections handed to SetTxUnbondingSignaturesReceived
SigSets == {<<>>, <<CovenantSigA>>, <<CovenantSigB, CovenantSigA>>}

\* The calls a behaviour makes.  Each staking transaction is inserted with
\* arguments of its own, or without an unbonding transaction.  The staking
\* confirmations and the signatures are sent for the first two transactions,
\* the unbonding confirmation for the first, before and after the insertion.
\* The properties below range over all of StakingTxs, InsertArgs, TxHashes.
InsertCalls ==
    {<<StakingTxA, InsertArgsA>>, <<StakingTxB, InsertArgsB>>, <<StakingTxC, InsertArgsA>>}
        \cup (StakingTxs \X {InsertArgsNoUnbonding})

TransitionHashes == {TxHash(StakingTxA), TxHash(StakingTxB)}

UnbondingConfirmedHashes == {TxHash(StakingTxA)}

---------------------------------------------------------------------------
(* The state machine: one action per exported call.  A call that returns   *)
(* an error leaves the committed buckets as they were.                     *)

\* no goroutine is tracked
NoCallers == <<>>

\* NewStakerService(c, s, l, db): the service is not started; c is the
\* configuration, of which RunUntilShutdown reads RPCListeners, here the
\* number of the addresses.  started is the int32 of the service; staker,
\* listeners and dbCloses tell what RunUntilShutdown has done to the staker,
\* to the listeners it has opened, each with the goroutine whose call
\* opened it, and to the database; calls and proceeds count the calls of
\* RunUntilShutdown and those that went past its first test; pc is where
\* each goroutine is in RunUntilShutdown and turns how many turns of the
\* loop over RPCListeners its running call has made; accepted counts the requests
\* accepted and not handled yet; invoked holds the operations of the staker
\* the handlers have called, with the hash they passed; querying holds the
\* hash of a call of stakingDetails that has the stored transaction and has
\* not asked the babylon node yet.
NewStakerService(c) ==
    [started |-> 0, config |-> c, staker |-> "created", listeners |-> <<>>,
     dbCloses |-> 0, calls |-> 0, proceeds |-> 0, pc |-> <<"idle", "idle">>,
     turns |-> <<0, 0>>,
     accepted |-> 0, invoked |-> {}, querying |-> Nil]

\* the configuration with one address to listen on
OneListener == [RPCListeners |-> 1]

Insert(store, tx, a) ==
    AddTransactionSentToBabylon(store, tx, a.stakingOutputIndex, a.stakingTime,
                                a.stakerAddress, a.unbondingTx, a.unbondingTime,
                                a.btcDelTxHash)

Init ==
    /\ db = initBuckets
    /\ inserted = <<>>
    /\ unit = Nil
    /\ callers = NoCallers
    /\ service = NewStakerService(OneListener)

DoAddTransactionSentToBabylon(tx, a) ==
    LET r == Insert(db, tx, a)
    IN  /\ db' = r.db
        /\ inserted' = IF r.err = ErrNone THEN Append(inserted, tx) ELSE inserted
        /\ UNCHANGED <<unit, callers, service>>

DoSetTxConfirmed(h, height) ==
    /\ db' = SetTxConfirmed(db, h, BlockHashAt(height), height).db
    /\ UNCHANGED <<inserted, unit, callers, service>>

DoSetDelegationActiveOnBabylonAndConfirmedOnBtc(h, height) ==
    /\ db' = SetDelegationActiveOnBabylonAndConfirmedOnBtc(
                 db, h, BlockHashAt(height), height).db
    /\ UNCHANGED <<inserted, unit, callers, service>>

DoSetTxUnbondingSignaturesReceived(h, sigs) ==
    /\ db' = SetTxUnbondingSignaturesReceived(db, h, sigs).db
    /\ UNCHANGED <<inserted, unit, callers, service>>

DoSetTxUnbondingConfirmedOnBtc(h, height) ==
    /\ db' = SetTxUnbondingConfirmedOnBtc(db, h, BlockHashAt(height), height).db
    /\ UNCHANGED <<inserted, unit, callers, service>>

\* the read-only calls run in a db.View and write nothing
DoGetTransaction(h) ==
    /\ GetTransaction(db, h).err \in
          {ErrNone, ErrTransactionNotFound, ErrCorruptedTransactionsDB, ErrDecode}
    /\ UNCHANGED vars

DoOutpointUsed(op) ==
    /\ OutpointUsed(db, op) \in BOOLEAN
    /\ UNCHANGED vars

Next ==
    \/ \E c \in InsertCalls : DoAddTransactionSentToBabylon(c[1], c[2])
    \/ \E h \in TransitionHashes, height \in Heights : DoSetTxConfirmed(h, height)
    \/ \E h \in TransitionHashes, height \in Heights :
          DoSetDelegationActiveOnBabylonAndConfirmedOnBtc(h, height)
    \/ \E h \in TransitionHashes, sigs \in SigSets :
          DoSetTxUnbondingSignaturesReceived(h, sigs)
    \/ \E h \in UnbondingConfirmedHashes, height \in Heights :
          DoSetTxUnbondingConfirmedOnBtc(h, height)
    \/ \E h \in TxHashes : DoGetTransaction(h)
    \/ \E op \in OutPoints : DoOutpointUsed(op)

Spec == Init /\ [][Next]_vars

\* The store opened on a database that is not fresh.  A database written
\* before unbonding data was attached at insertion holds records such as the
\* message of CreateTrackedTransaction: no unbonding data.
LegacyMessage(btcTx) ==
    [TrackedTransactionIdx |-> 0,
     StakingTransaction |-> SerializeBtcTransaction(btcTx),
     StakingOutputIdx |-> 0,
     StakerAddress |-> <<97>>,
     StakingTime |-> 10,
     StakingTxBtcConfirmationInfo |-> Nil,
     UnbondingTxData |-> Nil,
     BabylonBTCDelegationTxHash |-> <<>>]

LegacyStore(btcTx) ==
    addTransactionInternal(initBuckets, TxHash(btcTx), LegacyMessage(btcTx),
                           getInputData(btcTx)).db

\* a damaged database: the hash index names a record that is not there
DanglingStore == [LegacyStore(StakingTxA) EXCEPT !.transactions = EmptyBucket]

\* a damaged database: the bytes of the record are no protobuf message
GarbledStore ==
    [LegacyStore(StakingTxA) EXCEPT
        !.transactions = [k \in DOMAIN @ |-> << <<0, <<>> >> >>]]

\* a damaged database: the record is a protobuf message whose staking time
\* is above the 16 bits of the store
DriftedStore ==
    [LegacyStore(StakingTxA) EXCEPT
        !.transactions =
            [k \in DOMAIN @ |->
                Marshal([Unmarshal(@[k]).tx[1] EXCEPT !.StakingTime = MaxUint16 + 1])]]

InitOpened ==
    \/ Init
    \/ \E tx \in {StakingTxA, StakingTxB} :
          /\ db = LegacyStore(tx)
          /\ inserted = <<tx>>
          /\ unit = Nil
          /\ callers = NoCallers
          /\ service = NewStakerService(OneListener)
    \/ /\ db \in {DanglingStore, GarbledStore, DriftedStore}
       /\ inserted = <<>>
       /\ unit = Nil
       /\ callers = NoCallers
       /\ service = NewStakerService(OneListener)

SpecOpened == InitOpened /\ [][Next]_vars

---------------------------------------------------------------------------
(* The calls at the grain of the backend.  A mutating call opens a         *)
(* read-write transaction with kvdb.Batch, its closure makes its Puts one  *)
(* by one on that transaction, and the return of the closure commits them  *)
(* (nil) or rolls them back (an error).  The backend runs one read-write   *)
(* transaction at a time; the read-only calls see the committed buckets    *)
(* at any moment in between.                                               *)

\* the hash the state transitions are sent for at this grain
StepHashes == {TxHash(StakingTxA)}

\* kvdb.Batch is entered with the closure fs[1]: the closure reads the
\* committed buckets and its Puts are pending.  whole is the store the call
\* leaves when it runs alone, tx the staking transaction of an insertion.
BeginCall(fs, whole, tx) ==
    /\ Len(unit) = 0
    /\ Len(fs) > 0
    /\ unit' = Some([rw |-> db, todo |-> fs[1].writes, err |-> fs[1].err,
                     rest |-> Tail(fs), whole |-> whole, tx |-> tx])
    /\ UNCHANGED <<db, inserted, callers, service>>

\* AddTransactionSentToBabylon returns before kvdb.Batch when there is no
\* unbonding transaction
BeginAddTransactionSentToBabylon(tx, a) ==
    LET update == newInitialUnbondingTxData(a.unbondingTx, a.unbondingTime)
        msg == SentToBabylonMessage(tx, a.stakingOutputIndex, a.stakingTime,
                                    a.stakerAddress, update.ud, a.btcDelTxHash)
    IN  /\ update.err = ErrNone
        /\ BeginCall(addTransactionInternalBatches(db, TxHash(tx), msg, getInputData(tx)),
                     Insert(db, tx, a).db, Some(tx))

BeginSetTxConfirmed(h, height) ==
    BeginCall(<<setTxStateClosure(db, h, ConfirmedFn(BlockHashAt(height), height))>>,
              SetTxConfirmed(db, h, BlockHashAt(height), height).db, Nil)

BeginSetDelegationActiveOnBabylonAndConfirmedOnBtc(h, height) ==
    BeginCall(<<setTxStateClosure(db, h, DelegationActiveFn(BlockHashAt(height), height))>>,
                  SetDelegationActiveOnBabylonAndConfirmedOnBtc(
                      db, h, BlockHashAt(height), height).db, Nil)

BeginSetTxUnbondingSignaturesReceived(h, sigs) ==
    BeginCall(<<setTxStateClosure(db, h, UnbondingSignaturesReceivedFn(sigs))>>,
                  SetTxUnbondingSignaturesReceived(db, h, sigs).db, Nil)

BeginSetTxUnbondingConfirmedOnBtc(h, height) ==
    BeginCall(<<setTxStateClosure(db, h, UnbondingConfirmedFn(BlockHashAt(height), height))>>,
                  SetTxUnbondingConfirmedOnBtc(db, h, BlockHashAt(height), height).db, Nil)

\* the next Put of the closure returns nil: it is pending on the transaction
PutDone ==
    /\ Len(unit) # 0
    /\ Len(unit[1].todo) # 0
    /\ unit' = Some([unit[1] EXCEPT !.rw = ApplyWrite(@, Head(unit[1].todo)),
                                    !.todo = Tail(@)])
    /\ UNCHANGED <<db, inserted, callers, service>>

\* the next Put returns an error: the closure returns it and kvdb.Batch
\* rolls the transaction back
PutFails ==
    /\ Len(unit) # 0
    /\ Len(unit[1].todo) # 0
    /\ unit' = Nil
    /\ UNCHANGED <<db, inserted, callers, service>>

\* the closure returns an error of its own: rolled back
ClosureFails ==
    /\ Len(unit) # 0
    /\ Len(unit[1].todo) = 0
    /\ unit[1].err # ErrNone
    /\ unit' = Nil
    /\ UNCHANGED <<db, inserted, callers, service>>

\* the closure returns nil: kvdb.Batch commits the pending Puts together;
\* the call goes on with its next kvdb.Batch when it has one
ClosureReturns ==
    /\ Len(unit) # 0
    /\ Len(unit[1].todo) = 0
    /\ unit[1].err = ErrNone
    /\ db' = unit[1].rw
    /\ IF Len(unit[1].rest) # 0
       THEN /\ unit' = Some([unit[1] EXCEPT !.todo = unit[1].rest[1].writes,
                                            !.err = unit[1].rest[1].err,
                                            !.rest = Tail(@)])
            /\ UNCHANGED inserted
       ELSE /\ unit' = Nil
            /\ inserted' = IF Len(unit[1].tx) # 0
                           THEN Append(inserted, unit[1].tx[1]) ELSE inserted
    /\ UNCHANGED <<callers, service>>

NextSteps ==
    \/ \E c \in InsertCalls : BeginAddTransactionSentToBabylon(c[1], c[2])
    \/ \E h \in StepHashes, height \in Heights : BeginSetTxConfirmed(h, height)
    \/ \E h \in StepHashes, height \in Heights :
          BeginSetDelegationActiveOnBabylonAndConfirmedOnBtc(h, height)
    \/ \E h \in StepHashes, sigs \in SigSets :
          BeginSetTxUnbondingSignaturesReceived(h, sigs)
    \/ \E h \in StepHashes, height \in Heights :
          BeginSetTxUnbondingConfirmedOnBtc(h, height)
    \/ PutDone
    \/ PutFails
    \/ ClosureFails
    \/ ClosureReturns
    \/ \E h \in TxHashes : DoGetTransaction(h)
    \/ \E op \in OutPoints : DoOutpointUsed(op)

SpecSteps == Init /\ [][NextSteps]_vars

---------------------------------------------------------------------------
(* The listing calls on a store of up to four records *)

\* a fourth staking transaction
---------------------------------------------------------------------------
(* The RPC service (package stakerservice) over the store.  A string is the *)
(* sequence of its characters; a decimal digit is its value.               *)

defaultOffset == 0
defaultLimit == 50
maxLimit == 100

\* getPageParams: offsetPtr and limitPtr are Nil or Some(int)
getPageParams(offsetPtr, limitPtr) ==
    LET limit == IF Len(limitPtr) = 0 THEN defaultLimit ELSE limitPtr[1]
        offset == IF Len(offsetPtr) = 0 THEN defaultOffset ELSE offsetPtr[1]
    IN  IF limit < 0 THEN [err |-> ErrNegativePageParam, Offset |-> 0, Limit |-> 0]
        ELSE IF offset < 0 THEN [err |-> ErrNegativePageParam, Offset |-> 0, Limit |-> 0]
        ELSE [err |-> ErrNone, Offset |-> offset,
              Limit |-> IF limit > maxLimit THEN maxLimit ELSE limit]

\* strconv.FormatUint(n, 10): the decimal digits of n, "0" for 0
RECURSIVE FormatUint(_)
FormatUint(n) == IF n < 10 THEN <<n>> ELSE FormatUint(n \div 10) \o <<n % 10>>

\* A character of a hash string is a hexadecimal digit, by its value, or
\* NotHex for any other character.  The hashes of the model have HashSize
\* bytes for the 32 of the library (see Digest).
NotHex == 16
HashSize == Len(FundingHashA)
MaxHashStringSize == 2 * HashSize

\* chainhash.Hash.String: the hexadecimal digits of the bytes of the hash
\* in reverse order
HashString(hash) ==
    [i \in 1..(2 * Len(hash)) |->
        LET b == hash[Len(hash) - ((i + 1) \div 2) + 1]
        IN  IF i % 2 = 1 THEN b \div 16 ELSE b % 16]

\* chainhash.NewHashFromStr: a string longer than MaxHashStringSize and a
\* character that is no hexadecimal digit are errors; a shorter string is
\* padded with zeros in front; the bytes are reversed
NewHashFromStr(hash) ==
    LET srcBytes == IF Len(hash) % 2 = 0 THEN hash ELSE <<0>> \o hash
        padded == [i \in 1..(MaxHashStringSize - Len(srcBytes)) |-> 0] \o srcBytes
        reversedHash == [i \in 1..HashSize |-> 16 * padded[2 * i - 1] + padded[2 * i]]
    IN  IF Len(hash) > MaxHashStringSize THEN [err |-> ErrHashStr, hash |-> Nil]
        ELSE IF \E i \in 1..Len(hash) : hash[i] >= NotHex
        THEN [err |-> ErrHashStr, hash |-> Nil]
        ELSE [err |-> ErrNone,
              hash |-> Some([i \in 1..HashSize |-> reversedHash[HashSize + 1 - i]])]

\* storedTx.State.String(): the state is no field of the StoredTransaction
\* of this store; it is the stage of the lifecycle the record has reached
StoredTransactionState(storedTx) ==
    IF Len(storedTx.StakingTxConfirmationInfo) = 0 THEN "submitted"
    ELSE IF Len(storedTx.UnbondingTxData) = 0 THEN "confirmed"
    ELSE IF Len(storedTx.UnbondingTxData[1].UnbondingTxConfirmationInfo) # 0
    THEN "unbonding confirmed"
    ELSE IF Len(storedTx.UnbondingTxData[1].CovenantSignatures) # 0
    THEN "unbonding requested"
    ELSE "confirmed"

storedTxToStakingDetails(storedTx) ==
    [StakingTxHash |-> HashString(TxHash(storedTx.StakingTx)),
     StakerAddress |-> storedTx.StakerAddress,
     StakingState |-> StoredTransactionState(storedTx),
     TransactionIdx |-> FormatUint(storedTx.StoredTransactionIdx)]

\* App.WithdrawableTransactions(limit, offset) at the best block the staker
\* knows: the forward query with the withdrawable filter
stakerWithdrawableTransactions(store, bestHeight, limit, offset) ==
    QueryStoredTransactions(
        store,
        [IndexOffset |-> offset, NumMaxTransactions |-> limit, Reversed |-> FALSE,
         withdrawableTransactionsFilter |->
             Some([currentBestBlockHeight |-> bestHeight])])

\* the response of withdrawableTransactions from the result of the staker
WithdrawableTransactionsResponse(stakingDetails, lastIdx, total) ==
    [err |-> ErrNone,
     resp |-> Some([Transactions |-> stakingDetails,
                    LastWithdrawableTransactionIndex |-> lastIdx,
                    TotalTransactionCount |-> FormatUint(total)])]

\* withdrawableTransactions that reports the offset of the page plus the
\* number of its transactions
withdrawableTransactionsLastIsPosition(store, bestHeight, offset, limit) ==
    LET pageParams == getPageParams(offset, limit)
        txResult == stakerWithdrawableTransactions(
                        store, bestHeight, pageParams.Limit, pageParams.Offset)
        stakingDetails == [i \in 1..Len(txResult.Transactions) |->
                              storedTxToStakingDetails(txResult.Transactions[i])]
    IN  IF pageParams.err # ErrNone THEN [err |-> pageParams.err, resp |-> Nil]
        ELSE IF txResult.err # ErrNone THEN [err |-> txResult.err, resp |-> Nil]
        ELSE WithdrawableTransactionsResponse(
                 stakingDetails,
                 IF Len(stakingDetails) > 0
                 THEN FormatUint(pageParams.Offset + Len(stakingDetails))
                 ELSE <<0>>,
                 txResult.Total)

withdrawableTransactions(store, bestHeight, offset, limit) ==
    LET pageParams == getPageParams(offset, limit)
        txResult == stakerWithdrawableTransactions(
                        store, bestHeight, pageParams.Limit, pageParams.Offset)
        stakingDetails == [i \in 1..Len(txResult.Transactions) |->
                              storedTxToStakingDetails(txResult.Transactions[i])]
    IN  IF pageParams.err # ErrNone THEN [err |-> pageParams.err, resp |-> Nil]
        ELSE IF txResult.err # ErrNone THEN [err |-> txResult.err, resp |-> Nil]
        ELSE WithdrawableTransactionsResponse(
                 stakingDetails,
                 IF Len(stakingDetails) > 0
                 THEN stakingDetails[Len(stakingDetails)].TransactionIdx
                 ELSE <<0>>,
                 txResult.Total)

\* a handler calls the operation op of the staker with a hash
stakerCall(svc, op, hash) == [svc EXCEPT !.invoked = @ \cup {<<op, hash>>}]

\* the outcome of a handler: its error, the service and the store it leaves
Handled(err, svc, store) == [err |-> err, svc |-> svc, db |-> store]

\* App.GetStoredTransaction: GetTransaction of the store
storedStakingDetails(svc, store, stakingTxHash) ==
    LET txHash == NewHashFromStr(stakingTxHash)
    IN  IF txHash.err # ErrNone THEN Handled(txHash.err, svc, store)
        ELSE Handled(GetTransaction(store, txHash.hash[1]).err,
                     stakerCall(svc, "GetStoredTransaction", txHash.hash[1]), store)

\* In the handlers below stakerErr is what the operation of the staker, or
\* of the babylon controller, returns when the handler calls it: nil or an
\* error.  The handler returns that error.

\* stakingDetails up to the stored transaction: the string is parsed and
\* GetStoredTransaction called
stakingDetailsStored(svc, store, stakingTxHash) ==
    LET txHash == NewHashFromStr(stakingTxHash)
    IN  IF txHash.err # ErrNone THEN Handled(txHash.err, svc, store)
        ELSE Handled(GetTransaction(store, txHash.hash[1]).err,
                     stakerCall(svc, "GetStoredTransaction", txHash.hash[1]), store)

\* stakingDetails from there: QueryDelegationInfo is called with the hash
stakingDetailsQueried(svc, store, txHash, stakerErr) ==
    Handled(stakerErr, stakerCall(svc, "QueryDelegationInfo", txHash), store)

stakingDetails(svc, store, stakingTxHash, stakerErr) ==
    LET storedTx == stakingDetailsStored(svc, store, stakingTxHash)
    IN  IF storedTx.err # ErrNone THEN storedTx
        ELSE stakingDetailsQueried(storedTx.svc, store,
                                   NewHashFromStr(stakingTxHash).hash[1], stakerErr)

spendStake(svc, store, stakingTxHash, stakerErr) ==
    LET txHash == NewHashFromStr(stakingTxHash)
    IN  IF txHash.err # ErrNone THEN Handled(txHash.err, svc, store)
        ELSE Handled(stakerErr, stakerCall(svc, "SpendStake", txHash.hash[1]), store)

\* unbondStaking that hands the string to the staker before it parses it
unbondStakingParsesLate(svc, store, stakingTxHash, stakerErr) ==
    LET txHash == NewHashFromStr(stakingTxHash)
        called == stakerCall(svc, "UnbondStaking", stakingTxHash)
    IN  IF txHash.err # ErrNone THEN Handled(txHash.err, called, store)
        ELSE Handled(stakerErr, called, store)

unbondStaking(svc, store, stakingTxHash, stakerErr) ==
    LET txHash == NewHashFromStr(stakingTxHash)
    IN  IF txHash.err # ErrNone THEN Handled(txHash.err, svc, store)
        ELSE Handled(stakerErr, stakerCall(svc, "UnbondStaking", txHash.hash[1]), store)

btcTxBlkDetails(svc, store, txHashStr, stakerErr) ==
    LET txHash == NewHashFromStr(txHashStr)
    IN  IF txHash.err # ErrNone THEN Handled(txHash.err, svc, store)
        ELSE Handled(stakerErr, stakerCall(svc, "BtcTxAndBlock", txHash.hash[1]), store)

\* stakerAddressOk, covenantPksOk: the address and the keys decode
btcDelegationFromBtcStakingTx(svc, store, stakerAddressOk, btcStkTxHash, covenantPksOk, stakerErr) ==
    LET stkTxHash == NewHashFromStr(btcStkTxHash)
    IN  IF stkTxHash.err # ErrNone THEN Handled(stkTxHash.err, svc, store)
        ELSE IF ~stakerAddressOk \/ ~covenantPksOk THEN Handled(ErrDecode, svc, store)
        ELSE Handled(stakerErr,
                     stakerCall(svc, "SendPhase1Transaction", stkTxHash.hash[1]), store)

\* the handler of an RPC call that takes the hash of a staking transaction
HashHandler(route, svc, store, hash, othersOk, stakerErr) ==
    CASE route = "stored_staking_details" -> storedStakingDetails(svc, store, hash)
      [] route = "staking_details" -> stakingDetails(svc, store, hash, stakerErr)
      [] route = "spend_stake" -> spendStake(svc, store, hash, stakerErr)
      [] route = "unbond_staking" -> unbondStaking(svc, store, hash, stakerErr)
      [] route = "btc_tx_blk_details" -> btcTxBlkDetails(svc, store, hash, stakerErr)
      [] route = "btc_delegation_from_btc_staking_tx" ->
            btcDelegationFromBtcStakingTx(svc, store, othersOk, hash, othersOk, stakerErr)

---------------------------------------------------------------------------
(* The store with up to four records, for the queries and the scan *)

StakingTxD == [Version |-> 3, TxIn |-> <<OutPoint(FundingHashB, 0)>>]

ListedTxs == StakingTxs \cup {StakingTxD}

\* the insertions: the second and the fourth transaction are staked for the
\* longest time there is
ListedInsertCalls ==
    {<<StakingTxA, InsertArgsA>>, <<StakingTxB, InsertArgsB>>,
     <<StakingTxC, InsertArgsA>>, <<StakingTxD, InsertArgsB>>}

\* the staking confirmation arrives for the first and the third transaction,
\* the unbonding confirmation for the first, before or after its staking
\* confirmation, all in the block of height 1
ListedConfirmed == {TxHash(StakingTxA), TxHash(StakingTxC)}
ListedUnbondingConfirmed == {TxHash(StakingTxA)}
ListedHeights == {1}

\* offsets and limits up to one more than the records there are
Offsets == 0..(Cardinality(ListedTxs) + 1)
Limits == 0..(Cardinality(ListedTxs) + 1)

\* the best heights of the withdrawable filter: after a confirmation at
\* height 1 a lock of n blocks has expired at best height n and not before
BestHeights == {InsertArgsA.unbondingTime, InsertArgsA.stakingTime}

Filters == {Nil} \cup {Some([currentBestBlockHeight |-> h]) : h \in BestHeights}

Queries ==
    [IndexOffset : Offsets, NumMaxTransactions : Limits, Reversed : BOOLEAN,
     withdrawableTransactionsFilter : Filters]

\* the scanFuncs: what the function of the caller returns at each index
ScanFuncs ==
    [1..Cardinality(ListedTxs) -> {ErrNone, ErrScanFunc, ErrScanFuncOther}]

\* the offset and the limit of an RPC call: absent, negative, or a number
PageParams == {Nil} \cup {Some(n) : n \in -1..(Cardinality(ListedTxs) + 1)}

DoWithdrawableTransactions(bestHeight, offset, limit) ==
    /\ withdrawableTransactions(db, bestHeight, offset, limit).err \in
          {ErrNone, ErrNegativePageParam, ErrDecode}
    /\ UNCHANGED vars

DoQueryStoredTransactions(q) ==
    /\ QueryStoredTransactions(db, q).err \in {ErrNone, ErrDecode}
    /\ UNCHANGED vars

DoScanTrackedTransactions(scanFunc) ==
    /\ ScanTrackedTransactions(db, scanFunc).err \in
          {ErrNone, ErrScanFunc, ErrScanFuncOther, ErrDecode,
           ErrCorruptedTransactionsDB}
    /\ UNCHANGED vars

NextListed ==
    \/ \E c \in ListedInsertCalls : DoAddTransactionSentToBabylon(c[1], c[2])
    \/ \E h \in ListedConfirmed, height \in ListedHeights : DoSetTxConfirmed(h, height)
    \/ \E h \in ListedUnbondingConfirmed, height \in ListedHeights :
          DoSetTxUnbondingConfirmedOnBtc(h, height)
    \/ \E q \in Queries : DoQueryStoredTransactions(q)
    \/ \E scanFunc \in ScanFuncs : DoScanTrackedTransactions(scanFunc)
    \/ \E bestHeight \in BestHeights, offset \in PageParams, limit \in PageParams :
          DoWithdrawableTransactions(bestHeight, offset, limit)

SpecListed == Init /\ [][NextListed]_vars

---------------------------------------------------------------------------
(* The store opened on a database that holds one record, any of the valid  *)
(* records, as the calls of the store write it.                            *)

\* the confirmations of a record: none, the zero-valued one, one of a block
ConfirmationInfos ==
    {Nil, Some([Height |-> 0, BlockHash |-> <<0, 0>>]),
     Some([Height |-> MaxHeight, BlockHash |-> BlockHashAt(MaxHeight)])}

\* the unbonding data of a record: none, or an unbonding transaction with
\* its time, its signatures and its confirmation
UnbondingStoreDatas ==
    {Nil} \cup
    {Some([UnbondingTx |-> UnbondingTxA, UnbondingTime |-> t,
           CovenantSignatures |-> sigs, UnbondingTxConfirmationInfo |-> ci]) :
        t \in {0, MaxUint16}, sigs \in SigSets, ci \in ConfirmationInfos}

\* the valid records: the first of a store
ValidRecords ==
    [StoredTransactionIdx : {1},
     StakingTx : {StakingTxA},
     StakingOutputIndex : {0, 1},
     StakingTxConfirmationInfo : ConfirmationInfos,
     StakingTime : {0, MaxUint16},
     StakerAddress : {<<97>>},
     UnbondingTxData : UnbondingStoreDatas,
     BabylonBTCDelegationTxHash : {<<>>, <<100>>}]

\* the message of a confirmation, as setTxConfirmed builds it
ConfirmationMessage(ci) ==
    [i \in 1..Len(ci) |-> [BlockHash |-> ci[i].BlockHash, BlockHeight |-> ci[i].Height]]

\* the message of a record, built as the calls of the store build it:
\* AddTransactionSentToBabylon, then the transitions
RecordMessage(x) ==
    [TrackedTransactionIdx |-> x.StoredTransactionIdx,
     StakingTransaction |-> SerializeBtcTransaction(x.StakingTx),
     StakingOutputIdx |-> x.StakingOutputIndex,
     StakerAddress |-> x.StakerAddress,
     StakingTime |-> x.StakingTime,
     StakingTxBtcConfirmationInfo |-> ConfirmationMessage(x.StakingTxConfirmationInfo),
     UnbondingTxData |->
         [i \in 1..Len(x.UnbondingTxData) |->
             [UnbondingTransaction |->
                  SerializeBtcTransaction(x.UnbondingTxData[i].UnbondingTx),
              UnbondingTime |-> x.UnbondingTxData[i].UnbondingTime,
              CovenantSignatures |->
                  covenantSigsToProto(x.UnbondingTxData[i].CovenantSignatures),
              UnbondingTxBtcConfirmationInfo |->
                  ConfirmationMessage(x.UnbondingTxData[i].UnbondingTxConfirmationInfo)]],
     BabylonBTCDelegationTxHash |-> x.BabylonBTCDelegationTxHash]

\* the store that holds the record x and nothing else
StoreOf(x) ==
    addTransactionInternal(initBuckets, TxHash(x.StakingTx), RecordMessage(x),
                           getInputData(x.StakingTx)).db

InitCodec ==
    \E x \in ValidRecords :
        /\ db = StoreOf(x)
        /\ inserted = <<x.StakingTx>>
        /\ unit = Nil
        /\ callers = NoCallers
        /\ service = NewStakerService(OneListener)

NextCodec ==
    \/ \E h \in TxHashes : DoGetTransaction(h)
    \/ \E h \in TxHashes, height \in Heights : DoSetTxConfirmed(h, height)
    \/ \E h \in TxHashes, sigs \in SigSets :
          DoSetTxUnbondingSignaturesReceived(h, sigs)
    \/ \E h \in TxHashes, height \in Heights :
          DoSetTxUnbondingConfirmedOnBtc(h, height)

SpecCodec == InitCodec /\ [][NextCodec]_vars

---------------------------------------------------------------------------
(* Goroutines that call the store at the same time.  A goroutine enters     *)
(* kvdb.Batch and waits for the backend, which runs one read-write          *)
(* transaction at a time: the closure of the call reads the buckets of     *)
(* that transaction and its Puts are committed together (C3).              *)

Callers == 1..4

\* what each goroutine may call: the first two insert the same staking
\* transaction with arguments of their own, or transactions of their own;
\* the others send signatures for it, or insert it once more
CallInsert(tx, a) == [name |-> "AddTransactionSentToBabylon", tx |-> tx, a |-> a, sigs |-> <<>>]
CallSignatures(tx, sigs) == [name |-> "SetTxUnbondingSignaturesReceived", tx |-> tx, a |-> InsertArgsA, sigs |-> sigs]

CallerCalls ==
    << {CallInsert(StakingTxA, InsertArgsA), CallInsert(StakingTxB, InsertArgsB)},
       {CallInsert(StakingTxA, InsertArgsB), CallInsert(StakingTxC, InsertArgsA)},
       {CallSignatures(StakingTxA, <<CovenantSigA>>),
        CallInsert(StakingTxA, InsertArgsA)},
       {CallSignatures(StakingTxA, <<CovenantSigB, CovenantSigA>>)} >>

IsInsert(call) == call.name = "AddTransactionSentToBabylon"

\* the buckets the closure of a call reads: those of the read-write
\* transaction kvdb.Batch hands it, not those the goroutine saw at its call
rwTxBucketsAtCall(committed, atCall) == atCall

rwTxBuckets(committed, atCall) == committed

\* the closure of the call, run on the buckets it reads
CallClosure(buckets, call) ==
    IF IsInsert(call)
    THEN addTransactionInternalClosure(
             buckets, TxHash(call.tx),
             SentToBabylonMessage(
                 call.tx, call.a.stakingOutputIndex, call.a.stakingTime,
                 call.a.stakerAddress,
                 newInitialUnbondingTxData(call.a.unbondingTx, call.a.unbondingTime).ud,
                 call.a.btcDelTxHash),
             getInputData(call.tx))
    ELSE setTxStateClosure(buckets, TxHash(call.tx),
                           UnbondingSignaturesReceivedFn(call.sigs))

InitCallers ==
    /\ db = initBuckets
    /\ inserted = <<>>
    /\ unit = Nil
    /\ callers = [c \in Callers |-> [pc |-> "idle"]]
    /\ service = NewStakerService(OneListener)

\* the goroutine c makes its call: it enters kvdb.Batch and waits.  after
\* is the set of the goroutines whose calls had returned by then.
EnterBatch(c, call) ==
    /\ callers[c].pc = "idle"
    /\ callers' = [callers EXCEPT ![c] =
                      [pc |-> "waiting", call |-> call, atCall |-> db,
                       after |-> {d \in Callers : callers[d].pc = "done"}]]
    /\ UNCHANGED <<db, inserted, unit, service>>

\* the backend runs the read-write transaction of the waiting goroutine c
\* and the call returns
BatchRuns(c) ==
    /\ callers[c].pc = "waiting"
    /\ Len(unit) = 0
    /\ LET f == CallClosure(rwTxBuckets(db, callers[c].atCall), callers[c].call)
           r == Batch(db, f)
       IN  /\ db' = r.db
           /\ inserted' = IF IsInsert(callers[c].call) /\ r.err = ErrNone
                          THEN Append(inserted, callers[c].call.tx) ELSE inserted
           /\ callers' = [callers EXCEPT ![c] =
                             [pc |-> "done", call |-> callers[c].call,
                              err |-> r.err, after |-> callers[c].after]]
    /\ UNCHANGED <<unit, service>>

NextCallers ==
    \/ \E c \in Callers : \E call \in CallerCalls[c] : EnterBatch(c, call)
    \/ \E c \in Callers : BatchRuns(c)
    \/ \E h \in TxHashes : DoGetTransaction(h)

SpecCallers == InitCallers /\ [][NextCallers]_vars

---------------------------------------------------------------------------
(* The service run by goroutines that call RunUntilShutdown, and the RPC   *)
(* requests its servers accept while a listener is open.                   *)

MaxInt32 == 2147483647
MinInt32 == -2147483647 - 1

\* atomic.AddInt32(&s.started, delta) for delta from 1 to 2^31 - 1: the sum
\* wraps around
AddInt32(addr, delta) ==
    IF addr > MaxInt32 - delta THEN MinInt32 + (delta - 1 - (MaxInt32 - addr))
    ELSE addr + delta

\* a behaviour makes up to MaxCalls calls of RunUntilShutdown
MaxCalls == 2

\* the handlers run while the staker has been called with fewer than
\* MaxInvoked different arguments
MaxInvoked == 1

\* up to MaxAccepted requests are accepted and not handled yet
MaxAccepted == 1

\* the configurations have up to MaxRPCListeners listeners
MaxRPCListeners == 2

HashRoutes ==
    {"stored_staking_details", "staking_details", "spend_stake", "unbond_staking",
     "btc_tx_blk_details", "btc_delegation_from_btc_staking_tx"}

\* the strings the RPC calls get for a hash: those of the staking
\* transactions, the empty string, one of an odd length, one too long, two
\* with a character that is no hexadecimal digit
NotHashStrings == {<<1, 2, 3, 4, 5>>, <<NotHex>>, <<1, 2, NotHex, 4>>}
HashStrings ==
    {HashString(TxHash(StakingTxA)), <<>>, <<1, 2, 3>>} \cup NotHashStrings

\* the strings the requests of a behaviour carry: the hash of a staking
\* transaction and those that are no hash
ServedHashStrings == {HashString(TxHash(StakingTxA))} \cup NotHashStrings

Goroutines == {1, 2}

\* The service after n calls of RunUntilShutdown, n >= 1, the first made by
\* goroutine 1, which is past the test of started and before
\* s.staker.Start(), the others by goroutine 2, all returned: started holds
\* the sum of n ones.  afterCalls is that sum.
ServiceAfterCalls(c, afterCalls) ==
    [NewStakerService(c) EXCEPT !.started = afterCalls, !.proceeds = 1,
                                !.pc = [@ EXCEPT ![1] = "start"]]

\* The service as NewStakerService returns it, under every configuration,
\* and, with one listener configured, after 2^31 - 2 and after 2^32 - 1
\* calls of RunUntilShutdown.
InitService ==
    /\ db = initBuckets
    /\ inserted = <<>>
    /\ unit = Nil
    /\ callers = NoCallers
    /\ service \in
          {NewStakerService([RPCListeners |-> n]) : n \in 0..MaxRPCListeners}
              \cup {ServiceAfterCalls(OneListener, n) : n \in {MaxInt32 - 1, -1}}

\* the listeners opened by the calls of goroutine g that are open: those of
\* its running call, since a call closes its listeners before it returns
OpenListenersOf(svc, g) ==
    {i \in 1..Len(svc.listeners) :
        svc.listeners[i].by = g /\ svc.listeners[i].state = "open"}

\* the goroutine g calls RunUntilShutdown: it adds one to started and
\* returns nil unless the sum is 1
RunUntilShutdown(g) ==
    /\ service.pc[g] = "idle"
    /\ service.calls < MaxCalls
    /\ LET sum == AddInt32(service.started, 1)
       IN  service' = IF sum # 1
                      THEN [service EXCEPT !.started = sum, !.calls = @ + 1]
                      ELSE [service EXCEPT !.started = sum, !.calls = @ + 1,
                                           !.pc[g] = "start", !.turns[g] = 0,
                                           !.proceeds = @ + 1]
    /\ UNCHANGED <<db, inserted, unit, callers>>

\* s.staker.Start() returns nil, or an error: then the call returns through
\* the deferred close of the database
StakerStart(g, ok) ==
    /\ service.pc[g] = "start"
    /\ service' = IF ok THEN [service EXCEPT !.staker = "started", !.pc[g] = "listen"]
                  ELSE [service EXCEPT !.pc[g] = "deferDbClose"]
    /\ UNCHANGED <<db, inserted, unit, callers>>

\* one turn of the loop over s.config.RPCListeners: rpc.Listen returns a
\* listener, whose server is started, or an error: then the call returns
\* through the deferred functions
Listen(g, ok) ==
    /\ service.pc[g] = "listen"
    /\ service.turns[g] < service.config.RPCListeners
    /\ service' = IF ok
                  THEN [service EXCEPT
                           !.listeners = Append(@, [by |-> g, state |-> "open"]),
                           !.turns[g] = @ + 1]
                  ELSE [service EXCEPT !.pc[g] = "deferListeners"]
    /\ UNCHANGED <<db, inserted, unit, callers>>

\* the loop has ended: the call waits at <-ctx.Done()
FullyStarted(g) ==
    /\ service.pc[g] = "listen"
    /\ service.turns[g] = service.config.RPCListeners
    /\ service' = [service EXCEPT !.pc[g] = "waiting"]
    /\ UNCHANGED <<db, inserted, unit, callers>>

\* ctx.Done(): the call returns nil through the deferred functions
Shutdown(g) ==
    /\ service.pc[g] = "waiting"
    /\ service' = [service EXCEPT !.pc[g] = "deferListeners"]
    /\ UNCHANGED <<db, inserted, unit, callers>>

\* the deferred listener.Close() of the listener opened last among those
\* of the call that are open
DeferredListenerClose(g) ==
    /\ service.pc[g] = "deferListeners"
    /\ OpenListenersOf(service, g) # {}
    /\ LET last == CHOOSE i \in OpenListenersOf(service, g) :
                       \A k \in OpenListenersOf(service, g) : k <= i
       IN  service' = [service EXCEPT !.listeners[last].state = "closed"]
    /\ UNCHANGED <<db, inserted, unit, callers>>

\* the deferred s.staker.Stop(), after the listeners of the call are closed
DeferredStakerStop(g) ==
    /\ service.pc[g] = "deferListeners"
    /\ OpenListenersOf(service, g) = {}
    /\ service' = [service EXCEPT !.staker = "stopped", !.pc[g] = "deferDbClose"]
    /\ UNCHANGED <<db, inserted, unit, callers>>

\* the deferred s.db.Close(); the call returns
DeferredDbClose(g) ==
    /\ service.pc[g] = "deferDbClose"
    /\ service' = [service EXCEPT !.dbCloses = @ + 1, !.pc[g] = "idle"]
    /\ UNCHANGED <<db, inserted, unit, callers>>

\* rpc.Serve accepts a request on an open listener; its handler runs in a
\* goroutine of its own
AcceptRequest ==
    /\ \E i \in 1..Len(service.listeners) : service.listeners[i].state = "open"
    /\ service.accepted < MaxAccepted
    /\ service' = [service EXCEPT !.accepted = @ + 1]
    /\ UNCHANGED <<db, inserted, unit, callers>>

\* the outcomes of an operation of the staker
StakerErrs == {ErrNone, ErrStaker}

\* the handler of an accepted request of a route that takes a hash;
\* stakingDetails runs in two steps
DoHashRoute(route, hash, othersOk, stakerErr) ==
    /\ service.accepted > 0
    /\ Cardinality(service.invoked) < MaxInvoked
    /\ route # "staking_details"
    /\ LET r == HashHandler(route, service, db, hash, othersOk, stakerErr)
       IN  /\ service' = [r.svc EXCEPT !.accepted = @ - 1]
           /\ db' = r.db
    /\ UNCHANGED <<inserted, unit, callers>>

\* stakingDetails parses the string and gets the stored transaction; with
\* both it goes on to ask the babylon node
DoStakingDetailsStored(hash) ==
    /\ service.accepted > 0
    /\ Cardinality(service.invoked) < MaxInvoked
    /\ service.querying = Nil
    /\ LET r == stakingDetailsStored(service, db, hash)
       IN  /\ service' = IF r.err # ErrNone THEN [r.svc EXCEPT !.accepted = @ - 1]
                         ELSE [r.svc EXCEPT !.accepted = @ - 1,
                                            !.querying = NewHashFromStr(hash).hash]
           /\ db' = r.db
    /\ UNCHANGED <<inserted, unit, callers>>

\* the babylon node answers the call of stakingDetails, or fails
DoStakingDetailsQueried(stakerErr) ==
    /\ service.querying # Nil
    /\ LET r == stakingDetailsQueried(service, db, service.querying[1], stakerErr)
       IN  /\ service' = [r.svc EXCEPT !.querying = Nil]
           /\ db' = r.db
    /\ UNCHANGED <<inserted, unit, callers>>

NextService ==
    \/ \E g \in Goroutines : RunUntilShutdown(g)
    \/ \E g \in Goroutines, ok \in BOOLEAN : StakerStart(g, ok)
    \/ \E g \in Goroutines, ok \in BOOLEAN : Listen(g, ok)
    \/ \E g \in Goroutines : FullyStarted(g)
    \/ \E g \in Goroutines : Shutdown(g)
    \/ \E g \in Goroutines : DeferredListenerClose(g)
    \/ \E g \in Goroutines : DeferredStakerStop(g)
    \/ \E g \in Goroutines : DeferredDbClose(g)
    \/ AcceptRequest
    \/ \E route \in HashRoutes, hash \in ServedHashStrings, othersOk \in BOOLEAN :
          \E stakerErr \in StakerErrs : DoHashRoute(route, hash, othersOk, stakerErr)
    \/ \E hash \in ServedHashStrings : DoStakingDetailsStored(hash)
    \/ \E stakerErr \in StakerErrs : DoStakingDetailsQueried(stakerErr)
    \/ DoAddTransactionSentToBabylon(StakingTxA, InsertArgsA)

SpecService == InitService /\ [][NextService]_vars

\* the digest separates the transactions of the model
HashCollisionFree ==
    \A t1, t2 \in ListedTxs : TxHash(t1) = TxHash(t2) => t1 = t2

---------------------------------------------------------------------------
(* What the properties read off a store *)

\* the hashes of the hash index (its keys other than the counter's)
IndexedHashes(store) == DOMAIN store.transactionIdx \ {numTxKey}

\* the stored message of an indexed hash
StoredMessage(store, h) ==
    Unmarshal(store.transactions[store.transactionIdx[h]]).tx[1]

InsertedHashes == {TxHash(inserted[i]) : i \in 1..Len(inserted)}

\* a scanFunc that returns nil for every transaction
NeverFails == <<>>

---------------------------------------------------------------------------
(* C1 *)

\* C1 as stated: an insertion of a staking transaction whose hash is in
\* the hash index returns ErrDuplicateTransaction and leaves the buckets
\* (counter, records, hash index, outpoint index) as they were, whatever the
\* other arguments.
C1_DuplicateAnyArguments ==
    \A tx \in StakingTxs, a \in InsertArgs :
        TxHash(tx) \in IndexedHashes(db) =>
            Insert(db, tx, a) = [err |-> ErrDuplicateTransaction, db |-> db]

\* C1 amended: with an unbonding transaction among the arguments the
\* insertion of an indexed hash returns ErrDuplicateTransaction; without one
\* it returns the error of newInitialUnbondingTxData; the buckets are as they
\* were in both cases.
C1_DuplicateInsertFails ==
    \A tx \in StakingTxs, a \in InsertArgs :
        TxHash(tx) \in IndexedHashes(db) =>
            /\ Insert(db, tx, a).db = db
            /\ Insert(db, tx, a).err =
                  IF Len(a.unbondingTx) = 0 THEN ErrNoUnbondingTx
                  ELSE ErrDuplicateTransaction

\* a store of two records where the first staking transaction, inserted with
\* the first arguments, is inserted again with the second ones
C1_Witness ==
    /\ Len(inserted) >= 2
    /\ TxHash(StakingTxA) \in IndexedHashes(db)
    /\ StoredMessage(db, TxHash(StakingTxA)).StakerAddress = InsertArgsA.stakerAddress
    /\ Insert(db, StakingTxA, InsertArgsB).err = ErrDuplicateTransaction

---------------------------------------------------------------------------
(* C2 *)

\* C2: with N successful insertions so far, the keys of the primary records
\* are the encodings of 1..N, the k-th inserted transaction is stored under
\* index k and carries it, the counter reads N+1 and a full scan visits N
\* records.
C2_IndicesContiguous ==
    LET N == Len(inserted)
    IN  /\ DOMAIN db.transactions = {uint64KeyToBytes(k) : k \in 1..N}
        /\ \A k \in 1..N :
              /\ db.transactionIdx[TxHash(inserted[k])] = uint64KeyToBytes(k)
              /\ Unmarshal(db.transactions[uint64KeyToBytes(k)]).tx[1].TrackedTransactionIdx = k
        /\ nextTxKey(db.transactionIdx) = N + 1
        /\ getNumTx(db.transactionIdx) = N
        /\ ScanTrackedTransactions(db, NeverFails).err = ErrNone
        /\ Len(ScanTrackedTransactions(db, NeverFails).visited) = N
        /\ \A k \in 1..N :
              ScanTrackedTransactions(db, NeverFails).visited[k].StoredTransactionIdx = k

\* three insertions succeeded, and calls failed in between: a transition
\* was refused after the signatures had been set
C2_Witness ==
    /\ Len(inserted) = 3
    /\ \E h \in IndexedHashes(db) :
          SetTxUnbondingSignaturesReceived(db, h, <<CovenantSigA>>).err
              = ErrInvalidUnbondingDataUpdate

---------------------------------------------------------------------------
(* C3 *)

\* no part of an insertion is in the store without the rest: every record
\* has its hash index entry, every hash index entry its record and a counter
\* beyond it, every record an outpoint entry for each of its inputs, and
\* every outpoint entry the hash of an indexed record
Unbroken(store) ==
    /\ \A k \in DOMAIN store.transactions :
          \E h \in IndexedHashes(store) : store.transactionIdx[h] = k
    /\ \A h \in IndexedHashes(store) :
          /\ store.transactionIdx[h] \in DOMAIN store.transactions
          /\ BigEndianValue(store.transactionIdx[h]) < nextTxKey(store.transactionIdx)
          /\ LET btcTx == Deserialize(StoredMessage(store, h).StakingTransaction).tx[1]
             IN  \A i \in 1..Len(btcTx.TxIn) :
                    outpointBytes(btcTx.TxIn[i]) \in DOMAIN store.inputs
    /\ \A o \in DOMAIN store.inputs : store.inputs[o] \in IndexedHashes(store)

\* a step that ends a read-write transaction on an error
FailureStep ==
    /\ Len(unit) # 0
    /\ Len(unit[1].todo) # 0 \/ unit[1].err # ErrNone
    /\ Len(unit') = 0

\* C3: an insertion and a state transition are one atomic write unit.  The
\* buckets the read-only calls see are never broken by a unit in progress;
\* they change only in one step from what the call found to what the whole
\* call leaves; and a failure at any step of the unit leaves them as the
\* call found them.
C3_WriteUnitAtomic ==
    [][/\ Unbroken(db')
       /\ db' # db => Len(unit) # 0 /\ db' = unit[1].whole
       /\ FailureStep => db' = db]_vars

\* an insertion is under way on a store that holds a record: some of its
\* Puts are pending, others are still to come
C3_Witness ==
    /\ Len(unit) # 0
    /\ Len(unit[1].tx) # 0
    /\ unit[1].rw # db
    /\ Len(unit[1].todo) # 0
    /\ DOMAIN db.transactions # {}

---------------------------------------------------------------------------
(* C4, C5 *)

\* the record of h can be read and unmarshalled
Decodable(store, h) ==
    LET got == getTxByHash(h, store.transactionIdx, store.transactions)
    IN  got.err = ErrNone /\ Unmarshal(got.maybeTx[1]).err = ErrNone

HasUnbondingData(store, h) ==
    Decodable(store, h) /\ Len(StoredMessage(store, h).UnbondingTxData) # 0

\* the covenant signatures Get returns for h, empty when there are none
CovenantSignaturesOf(store, h) ==
    IF HasUnbondingData(store, h)
    THEN GetTransaction(store, h).tx[1].UnbondingTxData[1].CovenantSignatures
    ELSE <<>>

\* C4 as stated: on a record with unbonding data and no covenant signatures,
\* two calls of SetTxUnbondingSignaturesReceived with any two collections:
\* the first returns nil, the second ErrInvalidUnbondingDataUpdate.
C4_TwiceAnyCollections ==
    \A h \in TxHashes, s1 \in SigSets, s2 \in SigSets :
        (HasUnbondingData(db, h) /\ Len(CovenantSignaturesOf(db, h)) = 0) =>
            LET r1 == SetTxUnbondingSignaturesReceived(db, h, s1)
                r2 == SetTxUnbondingSignaturesReceived(r1.db, h, s2)
            IN  r1.err = ErrNone /\ r2.err = ErrInvalidUnbondingDataUpdate

\* C4 amended: the first call returns nil; the second returns
\* ErrInvalidUnbondingDataUpdate and changes nothing when the first collection
\* was not empty, whatever the second one, and returns nil when the first
\* collection was empty.
C4_TwiceNonEmptyFirst ==
    \A h \in TxHashes :
        (HasUnbondingData(db, h) /\ Len(CovenantSignaturesOf(db, h)) = 0) =>
            \A s1 \in SigSets :
                LET r1 == SetTxUnbondingSignaturesReceived(db, h, s1)
                IN  /\ r1.err = ErrNone
                    /\ CovenantSignaturesOf(r1.db, h) = s1
                    /\ \A s2 \in SigSets :
                          LET r2 == SetTxUnbondingSignaturesReceived(r1.db, h, s2)
                          IN  IF Len(s1) > 0
                              THEN r2.err = ErrInvalidUnbondingDataUpdate /\ r2.db = r1.db
                              ELSE r2.err = ErrNone

\* the signatures of a record were set, and a second call with another
\* collection is refused
C4_Witness ==
    \E h \in TransitionHashes :
        /\ CovenantSignaturesOf(db, h) = <<CovenantSigA>>
        /\ SetTxUnbondingSignaturesReceived(db, h, <<CovenantSigB, CovenantSigA>>).err
              = ErrInvalidUnbondingDataUpdate
        /\ SetTxUnbondingSignaturesReceived(db, h, <<CovenantSigA>>).err
              = ErrInvalidUnbondingDataUpdate

\* C5: in every step the covenant signatures of every record either stay as
\* they are or go from empty to non-empty; so non-empty signatures keep their
\* value in every later state.
C5_SignaturesSetOnce ==
    [][\A h \in TxHashes :
          CovenantSignaturesOf(db', h) # CovenantSignaturesOf(db, h) =>
              (Len(CovenantSignaturesOf(db, h)) = 0
                  /\ Len(CovenantSignaturesOf(db', h)) > 0)]_vars

\* signatures were set on a record that was afterwards confirmed twice over
C5_Witness ==
    \E h \in TransitionHashes :
        /\ Len(inserted) = 3
        /\ Len(CovenantSignaturesOf(db, h)) = 2
        /\ Len(GetTransaction(db, h).tx[1].StakingTxConfirmationInfo) # 0
        /\ Len(GetTransaction(db, h).tx[1].UnbondingTxData[1].UnbondingTxConfirmationInfo) # 0

---------------------------------------------------------------------------
(* C6, C7 *)

\* C6: on a record without unbonding data SetTxUnbondingSignaturesReceived and
\* SetTxUnbondingConfirmedOnBtc return ErrUnbondingDataNotFound; on a record
\* with unbonding data SetTxUnbondingConfirmedOnBtc returns nil and Get then
\* shows the given height and block hash, whatever was stored before.
C6_UnbondingDataGuards ==
    \A h \in TxHashes :
        Decodable(db, h) =>
            IF ~HasUnbondingData(db, h)
            THEN /\ \A sigs \in SigSets :
                       SetTxUnbondingSignaturesReceived(db, h, sigs).err
                           = ErrUnbondingDataNotFound
                 /\ \A height \in Heights :
                       SetTxUnbondingConfirmedOnBtc(db, h, BlockHashAt(height), height).err
                           = ErrUnbondingDataNotFound
            ELSE \A height \in Heights :
                    LET r == SetTxUnbondingConfirmedOnBtc(db, h, BlockHashAt(height), height)
                    IN  /\ r.err = ErrNone
                        /\ GetTransaction(r.db, h).tx[1].UnbondingTxData[1]
                               .UnbondingTxConfirmationInfo
                             = Some([Height |-> height, BlockHash |-> BlockHashAt(height)])

\* a store with a record without unbonding data and a record whose unbonding
\* confirmation is set, at the last height
C6_Witness ==
    /\ \E h \in TxHashes : Decodable(db, h) /\ ~HasUnbondingData(db, h)
    /\ \E h \in TxHashes :
          /\ HasUnbondingData(db, h)
          /\ GetTransaction(db, h).tx[1].UnbondingTxData[1].UnbondingTxConfirmationInfo
                = Some([Height |-> MaxHeight, BlockHash |-> BlockHashAt(MaxHeight)])

\* the results of every transition call on hash h
TransitionResults(store, h) ==
    {SetTxConfirmed(store, h, BlockHashAt(height), height) : height \in Heights}
        \cup {SetDelegationActiveOnBabylonAndConfirmedOnBtc(
                  store, h, BlockHashAt(height), height) : height \in Heights}
        \cup {SetTxUnbondingSignaturesReceived(store, h, sigs) : sigs \in SigSets}
        \cup {SetTxUnbondingConfirmedOnBtc(store, h, BlockHashAt(height), height) :
                  height \in Heights}

\* C7: a transition that returns an error returns one of the four errors and
\* leaves the three buckets as they were.
C7_FailedTransitionChangesNothing ==
    \A h \in TxHashes : \A r \in TransitionResults(db, h) :
        r.err # ErrNone =>
            /\ r.db = db
            /\ r.err \in {ErrTransactionNotFound, ErrCorruptedTransactionsDB,
                          ErrUnbondingDataNotFound, ErrInvalidUnbondingDataUpdate}

\* a store of two readable records in which calls fail with
\* ErrTransactionNotFound, ErrUnbondingDataNotFound and
\* ErrInvalidUnbondingDataUpdate
C7_Witness ==
    /\ Cardinality(DOMAIN db.transactions) = 2
    /\ \A e \in {ErrTransactionNotFound, ErrUnbondingDataNotFound,
                 ErrInvalidUnbondingDataUpdate} :
          \E h \in TxHashes : \E r \in TransitionResults(db, h) : r.err = e

\* a damaged store with a second, readable record, where a transition fails
\* with ErrCorruptedTransactionsDB
C7_WitnessCorrupted ==
    /\ \E h \in TxHashes : \E r \in TransitionResults(db, h) :
          r.err = ErrCorruptedTransactionsDB
    /\ \E h \in TxHashes : HasUnbondingData(db, h)

---------------------------------------------------------------------------
(* C8, C9, C10 *)

\* C8: Get and the four transitions return ErrTransactionNotFound for a hash
\* whose insertion never succeeded; Get returns the record of a hash whose
\* insertion succeeded.
C8_NotFoundIffNeverInserted ==
    \A h \in TxHashes :
        IF h \notin InsertedHashes
        THEN /\ GetTransaction(db, h).err = ErrTransactionNotFound
             /\ \A r \in TransitionResults(db, h) : r.err = ErrTransactionNotFound
        ELSE /\ GetTransaction(db, h).err = ErrNone
             /\ TxHash(GetTransaction(db, h).tx[1].StakingTx) = h

\* two insertions succeeded and transitions followed; the third hash is
\* still unknown
C8_Witness ==
    /\ Len(inserted) = 2
    /\ \E h \in TxHashes : GetTransaction(db, h).err = ErrTransactionNotFound
    /\ \E h \in TxHashes :
          /\ GetTransaction(db, h).err = ErrNone
          /\ Len(GetTransaction(db, h).tx[1].StakingTxConfirmationInfo) # 0

\* C9: every hash of the hash index maps to the key of a primary record whose
\* staking transaction has that hash, no two hashes map to one key, every
\* primary record is the image of exactly one hash, and no call of Get or of
\* a transition returns ErrCorruptedTransactionsDB.
C9_HashIndexOneToOne ==
    /\ \A h \in IndexedHashes(db) :
          /\ db.transactionIdx[h] \in DOMAIN db.transactions
          /\ TxHash(Deserialize(StoredMessage(db, h).StakingTransaction).tx[1]) = h
    /\ \A h1, h2 \in IndexedHashes(db) :
          db.transactionIdx[h1] = db.transactionIdx[h2] => h1 = h2
    /\ \A k \in DOMAIN db.transactions :
          Cardinality({h \in IndexedHashes(db) : db.transactionIdx[h] = k}) = 1
    /\ \A h \in TxHashes :
          /\ GetTransaction(db, h).err # ErrCorruptedTransactionsDB
          /\ \A r \in TransitionResults(db, h) : r.err # ErrCorruptedTransactionsDB

\* three records, one of them moved through its transitions
C9_Witness ==
    /\ Cardinality(IndexedHashes(db)) = 3
    /\ Cardinality(DOMAIN db.transactions) = 3
    /\ \E h \in TxHashes : Len(CovenantSignaturesOf(db, h)) > 0

\* C10: OutpointUsed(op) is true exactly for the outpoints consumed by an
\* input of a transaction whose insertion succeeded, and an insertion that
\* returns an error changes the answer for no outpoint.
C10_OutpointUsedIffConsumed ==
    /\ \A op \in OutPoints :
          OutpointUsed(db, op) <=>
              \E i \in 1..Len(inserted) : \E j \in 1..Len(inserted[i].TxIn) :
                  inserted[i].TxIn[j] = op
    /\ \A tx \in StakingTxs, a \in InsertArgs :
          Insert(db, tx, a).err # ErrNone =>
              \A op \in OutPoints : OutpointUsed(Insert(db, tx, a).db, op) = OutpointUsed(db, op)

\* two transactions are tracked; outpoints that differ from a consumed one in
\* the index or in the hash only are unused, and the insertion of the third
\* transaction without unbonding transaction fails
C10_Witness ==
    /\ Len(inserted) = 2
    /\ OutpointUsed(db, OutPoint(FundingHashA, 0))
    /\ OutpointUsed(db, OutPoint(FundingHashA, 1))
    /\ ~OutpointUsed(db, OutPoint(FundingHashA, 256))
    /\ ~OutpointUsed(db, OutPoint(FundingHashB, 0))
    /\ ~OutpointUsed(db, OutPoint(FundingHashB, 256))
    /\ Insert(db, StakingTxC, InsertArgsNoUnbonding).err # ErrNone
    /\ Insert(db, StakingTxA, InsertArgsA).err = ErrDuplicateTransaction

---------------------------------------------------------------------------
(* C11, C12, C13 *)

\* the outpoints the staking transaction tx consumes
ConsumedBy(tx) == {tx.TxIn[j] : j \in 1..Len(tx.TxIn)}

\* C11: no step makes a used outpoint unused, and in the step in which an
\* insertion commits every outpoint its staking transaction consumes is used.
C11_UsedOutpointStaysUsed ==
    [][/\ \A op \in OutPoints : OutpointUsed(db, op) => OutpointUsed(db', op)
       /\ Len(inserted') > Len(inserted) =>
             \A op \in ConsumedBy(inserted'[Len(inserted')]) : OutpointUsed(db', op)]_vars

\* the outpoints of the first transaction are used after two more successful
\* insertions and a transition on it
C11_Witness ==
    /\ Len(inserted) = 3
    /\ inserted[1] = StakingTxA
    /\ \A op \in ConsumedBy(StakingTxA) : OutpointUsed(db, op)
    /\ Len(StoredMessage(db, TxHash(StakingTxA)).StakingTxBtcConfirmationInfo) # 0

\* C12 as stated: the outpoint index holds, for every input of every tracked
\* transaction T, an entry under the input's outpoint whose value is the
\* hash of T.
C12_EntryOfEveryConsumer ==
    \A i \in 1..Len(inserted) : \A op \in ConsumedBy(inserted[i]) :
        /\ outpointBytes(op) \in DOMAIN db.inputs
        /\ db.inputs[outpointBytes(op)] = TxHash(inserted[i])

\* the position in the history of the last insertion that consumes op
LastConsumer(op) ==
    CHOOSE i \in 1..Len(inserted) :
        /\ op \in ConsumedBy(inserted[i])
        /\ \A k \in (i + 1)..Len(inserted) : op \notin ConsumedBy(inserted[k])

\* C12 amended: the outpoint index holds, for every input of every tracked
\* transaction, exactly one entry under the input's outpoint; its value is
\* the hash of the tracked transaction inserted last among those that
\* consume the outpoint, which is T itself when no later one does.  The
\* index holds no other entry.
C12_EntryOfLastConsumer ==
    /\ \A i \in 1..Len(inserted) : \A op \in ConsumedBy(inserted[i]) :
          /\ outpointBytes(op) \in DOMAIN db.inputs
          /\ db.inputs[outpointBytes(op)] = TxHash(inserted[LastConsumer(op)])
    /\ DOMAIN db.inputs =
          {outpointBytes(op) : op \in UNION {ConsumedBy(inserted[i]) : i \in 1..Len(inserted)}}

\* two tracked transactions consume one outpoint, the first of them another
\* one besides
C12_Witness ==
    /\ Len(inserted) >= 2
    /\ \E i, k \in 1..Len(inserted) :
          /\ i < k
          /\ ConsumedBy(inserted[i]) \cap ConsumedBy(inserted[k]) # {}
          /\ ConsumedBy(inserted[i]) \ ConsumedBy(inserted[k]) # {}

\* C13: every step keeps every record: its hash stays in the hash index with
\* the same key, the record under that key keeps its index field and its
\* staking transaction, no other hash takes the key, and the number of
\* records does not decrease.
C13_RecordsKept ==
    [][/\ \A h \in IndexedHashes(db) :
             /\ h \in IndexedHashes(db')
             /\ db'.transactionIdx[h] = db.transactionIdx[h]
             /\ db.transactionIdx[h] \in DOMAIN db'.transactions
             /\ StoredMessage(db', h).TrackedTransactionIdx
                   = StoredMessage(db, h).TrackedTransactionIdx
             /\ StoredMessage(db', h).StakingTransaction
                   = StoredMessage(db, h).StakingTransaction
             /\ \A o \in IndexedHashes(db') \ {h} :
                   db'.transactionIdx[o] # db.transactionIdx[h]
       /\ Cardinality(DOMAIN db'.transactions) >= Cardinality(DOMAIN db.transactions)]_vars

\* the first record was updated by every transition and two records were
\* added after it
C13_Witness ==
    /\ Len(inserted) = 3
    /\ LET m == StoredMessage(db, TxHash(inserted[1]))
       IN  /\ m.TrackedTransactionIdx = 1
           /\ Len(m.StakingTxBtcConfirmationInfo) # 0
           /\ Len(m.UnbondingTxData) # 0
           /\ Len(m.UnbondingTxData[1].CovenantSignatures) # 0
           /\ Len(m.UnbondingTxData[1].UnbondingTxBtcConfirmationInfo) # 0

---------------------------------------------------------------------------
(* C14, C15, C16, C17 *)

Min(a, b) == IF a < b THEN a ELSE b

Query(offset, limit, reversed, filter) ==
    [IndexOffset |-> offset, NumMaxTransactions |-> limit, Reversed |-> reversed,
     withdrawableTransactionsFilter |-> filter]

\* the indices of the transactions of a page, in the order of the page
IndicesOf(transactions) ==
    [i \in 1..Len(transactions) |-> transactions[i].StoredTransactionIdx]

\* the sequence of the numbers from a to b
Range(a, b) == [i \in 1..(IF b < a THEN 0 ELSE b - a + 1) |-> a + i - 1]

\* the k-th record of the store as Get returns it
RecordAt(k) == GetTransaction(db, TxHash(inserted[k])).tx[1]

\* C14: with N records, the forward query without filter at offset O and
\* limit L returns nil and the records of the indices O+1 .. min(O+L, N) in
\* this order, none when O >= N; the pages at the offsets 0, L, 2L, ... share
\* no record and hold all N together.
C14_ForwardPages ==
    LET N == Len(inserted)
    IN  /\ \A O \in Offsets, L \in Limits :
              LET r == QueryStoredTransactions(db, Query(O, L, FALSE, Nil))
              IN  /\ r.err = ErrNone
                  /\ IndicesOf(r.Transactions) = Range(O + 1, Min(O + L, N))
                  /\ \A i \in 1..Len(r.Transactions) :
                        r.Transactions[i] = RecordAt(O + i)
        /\ \A L \in Limits \ {0} :
              LET pages == [k \in 0..N |->
                               IndicesOf(QueryStoredTransactions(
                                   db, Query(k * L, L, FALSE, Nil)).Transactions)]
                  seen == [k \in 0..N |-> {pages[k][i] : i \in 1..Len(pages[k])}]
              IN  /\ UNION {seen[k] : k \in 0..N} = 1..N
                  /\ \A k1, k2 \in 0..N : k1 # k2 => seen[k1] \cap seen[k2] = {}

\* four records listed in two pages of two, and nothing behind them
C14_Witness ==
    /\ Len(inserted) = 4
    /\ IndicesOf(QueryStoredTransactions(db, Query(0, 2, FALSE, Nil)).Transactions)
          = <<1, 2>>
    /\ IndicesOf(QueryStoredTransactions(db, Query(2, 2, FALSE, Nil)).Transactions)
          = <<3, 4>>
    /\ QueryStoredTransactions(db, Query(4, 2, FALSE, Nil)).Transactions = <<>>

\* C15: every page is in strictly ascending order of index, whatever the
\* query; the reversed query without filter at offset 0 and limit L returns
\* the min(L, N) records of the highest indices, ascending.
C15_PagesAscending ==
    LET N == Len(inserted)
    IN  /\ \A q \in Queries :
              LET idx == IndicesOf(QueryStoredTransactions(db, q).Transactions)
              IN  \A i \in 1..(Len(idx) - 1) : idx[i] < idx[i + 1]
        /\ \A L \in Limits :
              IndicesOf(QueryStoredTransactions(db, Query(0, L, TRUE, Nil)).Transactions)
                  = Range(N - Min(L, N) + 1, N)

\* four records: the reversed query returns all of them ascending, and the
\* last two under a limit of two
C15_Witness ==
    /\ Len(inserted) = 4
    /\ IndicesOf(QueryStoredTransactions(db, Query(0, 5, TRUE, Nil)).Transactions)
          = <<1, 2, 3, 4>>
    /\ IndicesOf(QueryStoredTransactions(db, Query(0, 2, TRUE, Nil)).Transactions)
          = <<3, 4>>

\* the records behind the raw position O that the filter accepts, in order
AcceptedBehind(O, bestHeight) ==
    SelectSeq([i \in 1..(IF Len(inserted) > O THEN Len(inserted) - O ELSE 0) |->
                  RecordAt(O + i)],
              LAMBDA t : timeLockExpired(t, bestHeight))

\* C16: the forward query with the withdrawable filter returns the first
\* min(L, k) of the k records behind the raw position O that the filter
\* accepts, in index order.
C16_FilterKeepsBudget ==
    \A O \in Offsets, L \in Limits, h \in BestHeights :
        LET r == QueryStoredTransactions(
                     db, Query(O, L, FALSE, Some([currentBestBlockHeight |-> h])))
            accepted == AcceptedBehind(O, h)
        IN  /\ r.err = ErrNone
            /\ r.Transactions = SubSeq(accepted, 1, Min(L, Len(accepted)))

\* four records of which the filter accepts the second and the fourth: a
\* page of one holds the second, the page behind position 2 holds the fourth
C16_Witness ==
    /\ Len(inserted) = 4
    /\ \E h \in BestHeights :
          LET f == Some([currentBestBlockHeight |-> h])
          IN  /\ IndicesOf(QueryStoredTransactions(
                     db, Query(0, 5, FALSE, f)).Transactions) = <<2, 4>>
              /\ IndicesOf(QueryStoredTransactions(
                     db, Query(0, 1, FALSE, f)).Transactions) = <<2>>
              /\ IndicesOf(QueryStoredTransactions(
                     db, Query(2, 1, FALSE, f)).Transactions) = <<4>>

\* C17: the Total of every query is the number of records of the store.
C17_TotalIsRecordCount ==
    \A q \in Queries :
        QueryStoredTransactions(db, q).Total = Cardinality(DOMAIN db.transactions)

\* three records none of which the filter accepts: the pages are empty, at
\* an offset behind the records too, and the total is three
C17_Witness ==
    /\ Len(inserted) = 3
    /\ \A h \in BestHeights :
          QueryStoredTransactions(
              db, Query(0, 5, FALSE, Some([currentBestBlockHeight |-> h]))).Transactions
              = <<>>
    /\ QueryStoredTransactions(db, Query(5, 5, FALSE, Nil)).Transactions = <<>>
    /\ QueryStoredTransactions(db, Query(5, 5, FALSE, Nil)).Total = 3

---------------------------------------------------------------------------
(* C18, C19, C20 *)

\* the best heights the filter is asked at: all up to the expiry of the locks
\* of InsertArgsA, and those around the expiry of the longest lock
FilterBestHeights ==
    0..(MaxHeight + InsertArgsA.stakingTime)
        \cup {MaxUint16 + h - d : h \in Heights, d \in {1, 2}}

\* what the filter is to accept: t is a record as Get returns it
Withdrawable(t, h) ==
    /\ Len(t.StakingTxConfirmationInfo) # 0
    /\ LET unbonded == /\ Len(t.UnbondingTxData) # 0
                       /\ Len(t.UnbondingTxData[1].UnbondingTxConfirmationInfo) # 0
           refHeight == IF unbonded
                        THEN t.UnbondingTxData[1].UnbondingTxConfirmationInfo[1].Height
                        ELSE t.StakingTxConfirmationInfo[1].Height
           lock == IF unbonded THEN t.UnbondingTxData[1].UnbondingTime
                   ELSE t.StakingTime
       IN  (h + 1) - refHeight - lock >= 0

\* C18: the query with the withdrawable filter at best height h returns a
\* record exactly when its staking transaction is confirmed and
\* (h + 1) - refHeight - lock >= 0, with the height and the time of the
\* unbonding transaction when that is confirmed too and those of the staking
\* transaction otherwise.  A confirmation at 100 under a lock of 10 has not
\* expired at 108 and has at 109.
C18_WithdrawableFilter ==
    /\ \A h \in FilterBestHeights :
          LET page == QueryStoredTransactions(
                          db, Query(0, Len(inserted), FALSE,
                                    Some([currentBestBlockHeight |-> h])))
          IN  /\ page.err = ErrNone
              /\ IndicesOf(page.Transactions)
                    = SelectSeq(Range(1, Len(inserted)),
                                LAMBDA k : Withdrawable(RecordAt(k), h))
    /\ ~isTimeLockExpired(100, 10, 108)
    /\ isTimeLockExpired(100, 10, 109)

\* three records: one with the unbonding confirmation and no staking
\* confirmation, rejected at every height; one with both, accepted from the
\* expiry of the unbonding lock on; one with the longest staking time
C18_Witness ==
    /\ Len(inserted) = 3
    /\ \E k \in 1..3 :
          /\ Len(RecordAt(k).StakingTxConfirmationInfo) = 0
          /\ Len(RecordAt(k).UnbondingTxData[1].UnbondingTxConfirmationInfo) # 0
          /\ \A h \in FilterBestHeights : ~timeLockExpired(RecordAt(k), h)
    /\ \E k \in 1..3 :
          /\ RecordAt(k).StakingTime = MaxUint16
          /\ Len(RecordAt(k).StakingTxConfirmationInfo) # 0
          /\ \E h \in FilterBestHeights :
                timeLockExpired(RecordAt(k), h) /\ ~timeLockExpired(RecordAt(k), h - 1)

\* C19: the scan hands the records to scanFunc in the order of the indices
\* 1, 2, ..., N, each once; when scanFunc returns an error at index k the
\* scan returns that error and hands over no record behind k; it returns nil
\* when scanFunc never returns an error.
C19_ScanStopsAtFirstError ==
    LET N == Len(inserted)
    IN  \A scanFunc \in ScanFuncs :
            LET r == ScanTrackedTransactions(db, scanFunc)
                failing == {k \in 1..N : scanFunc[k] # ErrNone}
                first == CHOOSE k \in failing : \A o \in failing : k <= o
            IN  IF failing = {}
                THEN /\ r.err = ErrNone
                     /\ r.visited = [k \in 1..N |-> RecordAt(k)]
                ELSE /\ r.err = scanFunc[first]
                     /\ r.visited = [k \in 1..first |-> RecordAt(k)]

\* four records and a scanFunc that fails at the second and, with another
\* error, at the third: the scan hands over two records
C19_Witness ==
    /\ Len(inserted) = 4
    /\ LET r == ScanTrackedTransactions(
                    db, <<ErrNone, ErrScanFunc, ErrScanFuncOther, ErrNone>>)
       IN  /\ r.err = ErrScanFunc
           /\ IndicesOf(r.visited) = <<1, 2>>

\* C20: SetTxConfirmed returns nil on every tracked record, whatever it
\* holds, and Get returns the height and the block hash of the call
\* afterwards.
C20_ConfirmationLastWriteWins ==
    \A h \in IndexedHashes(db), height \in Heights, at \in Heights :
        LET r == SetTxConfirmed(db, h, BlockHashAt(at), height)
        IN  /\ r.err = ErrNone
            /\ GetTransaction(r.db, h).err = ErrNone
            /\ GetTransaction(r.db, h).tx[1].StakingTxConfirmationInfo
                  = Some([Height |-> height, BlockHash |-> BlockHashAt(at)])

\* a record confirmed at the highest height, with its unbonding
\* confirmation, is confirmed anew at the lowest
C20_Witness ==
    \E h \in IndexedHashes(db) :
        /\ GetTransaction(db, h).tx[1].StakingTxConfirmationInfo
              = Some([Height |-> MaxHeight, BlockHash |-> BlockHashAt(MaxHeight)])
        /\ Len(StoredMessage(db, h).UnbondingTxData[1].UnbondingTxBtcConfirmationInfo) # 0
        /\ GetTransaction(SetTxConfirmed(db, h, BlockHashAt(1), 1).db, h)
              .tx[1].StakingTxConfirmationInfo
              = Some([Height |-> 1, BlockHash |-> BlockHashAt(1)])

---------------------------------------------------------------------------
(* C21 *)

\* C21: the store that holds the encoding of a valid record returns, under
\* the hash of its staking transaction, that record with every field as
\* it was encoded: with or without the staking confirmation, the unbonding
\* data and the unbonding confirmation, with no or some covenant
\* signatures; an absent part comes back absent and a zero-valued one
\* present.  The message of every record a call has written is the
\* encoding of the record read.
C21_DecodeOfEncode ==
    /\ \A x \in ValidRecords :
          (inserted[1] = x.StakingTx /\ db = StoreOf(x))
              => GetTransaction(db, TxHash(x.StakingTx))
                    = [err |-> ErrNone, tx |-> Some(x)]
    /\ \A h \in IndexedHashes(db) :
          /\ GetTransaction(db, h).err = ErrNone
          /\ StoredMessage(db, h) = RecordMessage(GetTransaction(db, h).tx[1])

\* a record without the staking confirmation, with unbonding data that has
\* no signatures and the zero-valued confirmation, is read back as such
C21_Witness ==
    \E x \in ValidRecords :
        /\ x.StakingTxConfirmationInfo = Nil
        /\ x.UnbondingTxData # Nil
        /\ x.UnbondingTxData[1].CovenantSignatures = <<>>
        /\ x.UnbondingTxData[1].UnbondingTxConfirmationInfo
              = Some([Height |-> 0, BlockHash |-> <<0, 0>>])
        /\ db = StoreOf(x)
        /\ GetTransaction(db, TxHash(x.StakingTx)).tx = Some(x)

---------------------------------------------------------------------------
(* C22 *)

\* the query that returns every record
QueryAll == Query(0, Cardinality(ListedTxs), FALSE, Nil)

\* the stored bytes of h are there and do not decode: they are no protobuf
\* message, or a message protoTxToStoredTransaction refuses
Undecodable(store, h) ==
    LET got == getTxByHash(h, store.transactionIdx, store.transactions)
    IN  /\ got.err = ErrNone
        /\ \/ Unmarshal(got.maybeTx[1]).err # ErrNone
           \/ protoTxToStoredTransaction(Unmarshal(got.maybeTx[1]).tx[1]).err # ErrNone

\* C22: when the stored record of a hash does not decode (bytes that are no
\* message, or a staking or unbonding time above 65535), GetTransaction,
\* QueryStoredTransactions, ScanTrackedTransactions and every transition on
\* that hash return ErrCorruptedTransactionsDB, and the transitions write
\* nothing.
C22_UndecodableIsCorrupted ==
    \A h \in TxHashes :
        Undecodable(db, h) =>
            /\ GetTransaction(db, h).err = ErrCorruptedTransactionsDB
            /\ QueryStoredTransactions(db, QueryAll).err = ErrCorruptedTransactionsDB
            /\ ScanTrackedTransactions(db, NeverFails).err = ErrCorruptedTransactionsDB
            /\ \A r \in TransitionResults(db, h) :
                  r.err = ErrCorruptedTransactionsDB /\ r.db = db

---------------------------------------------------------------------------
(* C23 *)

Done == {c \in Callers : callers[c].pc = "done"}

\* the orders of the calls that have returned in which a call that was made
\* after another had returned comes behind it
Orders ==
    {o \in [1..Cardinality(Done) -> Done] :
        /\ \A i, j \in DOMAIN o : o[i] = o[j] => i = j
        /\ \A i, j \in DOMAIN o : o[i] \in callers[o[j]].after => i < j}

\* the calls of the goroutines of o made one after the other by one
\* goroutine, from the store after the first k of them: do they return what
\* the goroutines got, and leave the store final
RECURSIVE RunsAs(_, _, _, _)
RunsAs(store, o, k, final) ==
    IF k > Len(o) THEN store = final
    ELSE LET call == callers[o[k]].call
             r == IF IsInsert(call) THEN Insert(store, call.tx, call.a)
                  ELSE SetTxUnbondingSignaturesReceived(store, TxHash(call.tx), call.sigs)
         IN  /\ r.err = callers[o[k]].err
             /\ RunsAs(r.db, o, k + 1, final)

InsertersOf(tx) == {c \in Done : IsInsert(callers[c].call) /\ callers[c].call.tx = tx}
SignersOf(tx) == {c \in Done : ~IsInsert(callers[c].call) /\ callers[c].call.tx = tx}
Succeeded(cs) == {c \in cs : callers[c].err = ErrNone}

\* C23: the calls that have returned have the results, and leave the store,
\* of the same calls made one after the other in some order that keeps a
\* call behind those that had returned before it was made.  The insertions
\* that returned nil have the indices 1, 2, ... between them; of the
\* insertions of one staking transaction one returned nil and the others
\* ErrDuplicateTransaction; of the calls that send signatures for a record
\* at most one returned nil, and one did when one of them was made after
\* the insertion of the record had returned.
C23_CallsSerialized ==
    /\ \E o \in Orders : RunsAs(initBuckets, o, 1, db)
    /\ {GetTransaction(db, TxHash(callers[c].call.tx)).tx[1].StoredTransactionIdx :
            c \in Succeeded({d \in Done : IsInsert(callers[d].call)})}
          = 1..Len(inserted)
    /\ \A tx \in StakingTxs :
          /\ InsertersOf(tx) # {} => Cardinality(Succeeded(InsertersOf(tx))) = 1
          /\ \A c \in InsertersOf(tx) \ Succeeded(InsertersOf(tx)) :
                callers[c].err = ErrDuplicateTransaction
          /\ Cardinality(Succeeded(SignersOf(tx))) <= 1
          /\ (\E c \in SignersOf(tx) : Succeeded(InsertersOf(tx)) \cap callers[c].after # {})
                => Cardinality(Succeeded(SignersOf(tx))) = 1
          /\ \A c \in SignersOf(tx) \ Succeeded(SignersOf(tx)) :
                callers[c].err \in {ErrTransactionNotFound, ErrInvalidUnbondingDataUpdate}

\* two goroutines inserted the same staking transaction at the same time,
\* neither call made after the return of the other, and two sent signatures
\* at the same time once the insertion had returned: one of each pair got nil
C23_Witness ==
    /\ Done = Callers
    /\ callers[3].call.name = "SetTxUnbondingSignaturesReceived"
    /\ callers[1].call.tx = StakingTxA /\ callers[2].call.tx = StakingTxA
    /\ 1 \notin callers[2].after /\ 2 \notin callers[1].after
    /\ 3 \notin callers[4].after /\ 4 \notin callers[3].after
    /\ Succeeded({1, 2}) = {2}
    /\ callers[1].err = ErrDuplicateTransaction
    /\ callers[3].after = {1, 2} /\ callers[4].after = {1, 2}
    /\ Succeeded({3, 4}) = {4}
    /\ callers[3].err = ErrInvalidUnbondingDataUpdate

---------------------------------------------------------------------------
(* C24 *)

\* the store after differs from db in the record of h at most
OnlyRecordOf(after, h) ==
    /\ after.transactionIdx = db.transactionIdx
    /\ after.inputs = db.inputs
    /\ DOMAIN after.transactions = DOMAIN db.transactions
    /\ \A k \in DOMAIN db.transactions :
          k # db.transactionIdx[h] => after.transactions[k] = db.transactions[k]

\* the call that returned r on h left everything but the record of h, and
\* made of that record the record expected
MovedTo(r, h, expected) ==
    r.err = ErrNone =>
        /\ OnlyRecordOf(r.db, h)
        /\ GetTransaction(r.db, h) = [err |-> ErrNone, tx |-> Some(expected)]

\* C24: a transition that returns nil on the hash h changes one field of the
\* record of h as GetTransaction returns it, the staking confirmation, the
\* covenant signatures or the unbonding confirmation, and no other field of
\* it; the other records, the hash index with its counter and the outpoint
\* index stay as they were.
C24_TransitionFrame ==
    \A h \in IndexedHashes(db) :
        LET before == GetTransaction(db, h).tx[1]
        IN  /\ \A height \in Heights :
                  LET ci == Some([Height |-> height, BlockHash |-> BlockHashAt(height)])
                  IN  /\ MovedTo(SetTxConfirmed(db, h, BlockHashAt(height), height), h,
                                 [before EXCEPT !.StakingTxConfirmationInfo = ci])
                      /\ MovedTo(SetDelegationActiveOnBabylonAndConfirmedOnBtc(
                                     db, h, BlockHashAt(height), height), h,
                                 [before EXCEPT !.StakingTxConfirmationInfo = ci])
                      /\ MovedTo(SetTxUnbondingConfirmedOnBtc(
                                     db, h, BlockHashAt(height), height), h,
                                 [before EXCEPT
                                     !.UnbondingTxData[1].UnbondingTxConfirmationInfo = ci])
            /\ \A sigs \in SigSets :
                  MovedTo(SetTxUnbondingSignaturesReceived(db, h, sigs), h,
                          [before EXCEPT !.UnbondingTxData[1].CovenantSignatures = sigs])

\* three records, the first with its confirmations and its signatures: a
\* confirmation of its unbonding transaction in another block changes the
\* store
C24_Witness ==
    /\ Len(inserted) = 3
    /\ LET h == TxHash(inserted[1])
           before == GetTransaction(db, h).tx[1]
       IN  /\ Len(before.StakingTxConfirmationInfo) # 0
           /\ Len(before.UnbondingTxData[1].CovenantSignatures) # 0
           /\ before.UnbondingTxData[1].UnbondingTxConfirmationInfo
                 = Some([Height |-> 1, BlockHash |-> BlockHashAt(1)])
           /\ LET r == SetTxUnbondingConfirmedOnBtc(db, h, BlockHashAt(MaxHeight), MaxHeight)
              IN  r.err = ErrNone /\ r.db # db

---------------------------------------------------------------------------
(* C25 *)

\* C25: on every store, sound or damaged, and for every hash, block hash
\* and height, SetTxConfirmed and
\* SetDelegationActiveOnBabylonAndConfirmedOnBtc return the same error and
\* leave the same store, so that nothing read or written afterwards tells
\* which of the two was called.
C25_ConfirmedSameAsDelegationActive ==
    \A h \in TxHashes, height \in Heights, at \in Heights :
        SetTxConfirmed(db, h, BlockHashAt(at), height)
            = SetDelegationActiveOnBabylonAndConfirmedOnBtc(db, h, BlockHashAt(at), height)

\* a record confirmed at the highest height: both calls replace the
\* confirmation by one at the lowest; another hash is not in the index and
\* both calls return ErrTransactionNotFound
C25_Witness ==
    /\ \E h \in IndexedHashes(db) :
          /\ GetTransaction(db, h).err = ErrNone
          /\ GetTransaction(db, h).tx[1].StakingTxConfirmationInfo
                = Some([Height |-> MaxHeight, BlockHash |-> BlockHashAt(MaxHeight)])
          /\ LET r == SetDelegationActiveOnBabylonAndConfirmedOnBtc(
                          db, h, BlockHashAt(1), 1)
             IN  /\ r.err = ErrNone
                 /\ r.db # db
                 /\ r = SetTxConfirmed(db, h, BlockHashAt(1), 1)
    /\ \E h \in TxHashes :
          SetTxConfirmed(db, h, BlockHashAt(1), 1).err = ErrTransactionNotFound

---------------------------------------------------------------------------
(* C26 *)

\* strconv.ParseUint of the caller: the number of the decimal digits
RECURSIVE ParseUint(_)
ParseUint(s) ==
    IF Len(s) = 0 THEN 0 ELSE 10 * ParseUint(SubSeq(s, 1, Len(s) - 1)) + s[Len(s)]

\* the indices of the transactions of a response, as the caller reads them
ListedIndices(resp) ==
    [i \in 1..Len(resp.Transactions) |-> ParseUint(resp.Transactions[i].TransactionIdx)]

\* the indices returned by n calls, the first at the offset given and each
\* next one at the last index the call before it reported
RECURSIVE WalkCalls(_, _, _, _)
WalkCalls(bestHeight, offset, limit, n) ==
    IF n = 0 THEN <<>>
    ELSE LET resp == withdrawableTransactions(db, bestHeight, Some(offset), limit).resp[1]
         IN  ListedIndices(resp)
                 \o WalkCalls(bestHeight, ParseUint(resp.LastWithdrawableTransactionIndex),
                              limit, n - 1)

\* the same, up to the first call that returns no transaction
RECURSIVE WalkToEmptyPage(_, _, _)
WalkToEmptyPage(bestHeight, offset, limit) ==
    LET resp == withdrawableTransactions(db, bestHeight, Some(offset), limit).resp[1]
    IN  IF Len(resp.Transactions) = 0 THEN <<>>
        ELSE ListedIndices(resp)
                 \o WalkToEmptyPage(bestHeight,
                                    ParseUint(resp.LastWithdrawableTransactionIndex), limit)

\* the indices of the withdrawable records at a best height, ascending
WithdrawableIndices(bestHeight) ==
    SelectSeq(Range(1, Len(inserted)), LAMBDA k : Withdrawable(RecordAt(k), bestHeight))

\* the last index every call reports is that of the last transaction of its
\* page, "0" when it has none
LastIndexReported ==
    \A bestHeight \in BestHeights, offset \in PageParams, limit \in PageParams :
        LET r == withdrawableTransactions(db, bestHeight, offset, limit)
            page == stakerWithdrawableTransactions(
                        db, bestHeight, getPageParams(offset, limit).Limit,
                        getPageParams(offset, limit).Offset).Transactions
        IN  r.err = ErrNone =>
               r.resp[1].LastWithdrawableTransactionIndex
                  = IF Len(page) = 0 THEN <<0>>
                    ELSE FormatUint(page[Len(page)].StoredTransactionIdx)

\* the calls a caller makes at most: one more than the records there are
\* and one behind
WalkLengths == 1..(Cardinality(ListedTxs) + 2)

\* C26 as stated: every call reports the index of the last transaction of
\* its page, "0" for an empty page; for every limit, the calls from offset
\* 0 on, each at the last index reported, never return a withdrawable
\* transaction twice, return them in ascending order, and in the end have
\* returned them all.
C26_WalkAnyLimitAnyLength ==
    /\ LastIndexReported
    /\ \A bestHeight \in BestHeights, limit \in PageParams :
          getPageParams(Nil, limit).err = ErrNone =>
              /\ \A n \in WalkLengths :
                    LET idx == WalkCalls(bestHeight, 0, limit, n)
                    IN  \A i \in 1..(Len(idx) - 1) : idx[i] < idx[i + 1]
              /\ \E n \in WalkLengths :
                    WalkCalls(bestHeight, 0, limit, n) = WithdrawableIndices(bestHeight)

\* C26, amended: every call reports the index of the last transaction of
\* its page, "0" for an empty page; for every limit of one or more, or
\* none, the calls from offset 0 on, each at the last index reported, up to
\* the first call that returns no transaction, return the withdrawable
\* transactions each once, in ascending order of index, and all of them.
C26_WalkToEmptyPage ==
    /\ LastIndexReported
    /\ \A bestHeight \in BestHeights, limit \in PageParams :
          (getPageParams(Nil, limit).err = ErrNone /\ getPageParams(Nil, limit).Limit > 0)
              => WalkToEmptyPage(bestHeight, 0, limit) = WithdrawableIndices(bestHeight)

\* four records of which the first and the last are withdrawable: with a
\* limit of one the first call returns the first and reports "1", the
\* second returns the fourth and reports "4", the third returns none
C26_Witness ==
    /\ Len(inserted) = 4
    /\ \E bestHeight \in BestHeights :
          /\ WithdrawableIndices(bestHeight) = <<1, 4>>
          /\ LET first == withdrawableTransactions(db, bestHeight, Some(0), Some(1)).resp[1]
                 second == withdrawableTransactions(db, bestHeight, Some(1), Some(1)).resp[1]
                 third == withdrawableTransactions(db, bestHeight, Some(4), Some(1)).resp[1]
             IN  /\ ListedIndices(first) = <<1>>
                 /\ first.LastWithdrawableTransactionIndex = <<1>>
                 /\ ListedIndices(second) = <<4>>
                 /\ second.LastWithdrawableTransactionIndex = <<4>>
                 /\ third.Transactions = <<>>
                 /\ third.LastWithdrawableTransactionIndex = <<0>>

---------------------------------------------------------------------------
(* C27, C28 *)

\* C27: a call of one of the six routes that take the hash of a staking
\* transaction, with a string NewHashFromStr refuses, returns the error of
\* the parse, whatever the staker would return, and leaves the service, with
\* the operations of the staker it has called, and the store as they were.
C27_BadHashRejectedAtTheBoundary ==
    \A route \in HashRoutes, hash \in HashStrings, othersOk \in BOOLEAN :
        \A stakerErr \in StakerErrs :
            NewHashFromStr(hash).err # ErrNone =>
                LET r == HashHandler(route, service, db, hash, othersOk, stakerErr)
                IN  /\ r.err = ErrHashStr
                    /\ r.svc = service
                    /\ r.db = db

\* the service is serving over a store that holds a record, the staker has
\* been called with the hash of that record, and a string with a character
\* that is no hexadecimal digit is refused where the string of the hash is
\* taken
C27_Witness ==
    /\ \E i \in 1..Len(service.listeners) : service.listeners[i].state = "open"
    /\ Len(inserted) > 0
    /\ <<"UnbondStaking", TxHash(inserted[1])>> \in service.invoked
    /\ unbondStaking(service, db, HashString(TxHash(inserted[1])), ErrNone).err = ErrNone
    /\ unbondStaking(service, db, HashString(TxHash(inserted[1])), ErrStaker).err
          = ErrStaker
    /\ unbondStaking(service, db, <<1, 2, NotHex, 4>>, ErrNone).err = ErrHashStr
    /\ unbondStaking(service, db, <<1, 2, 3, 4, 5>>, ErrStaker).err = ErrHashStr

\* C28: however often RunUntilShutdown is called, and by however many
\* goroutines, at most one call goes on to start the staker, and the
\* database is closed at most once.
C28_AtMostOneCallProceeds ==
    /\ service.proceeds <= 1
    /\ service.dbCloses <= 1

---------------------------------------------------------------------------
(* C29 *)

\* the uint32 heights at the ends of the range and around 2^16, and the
\* uint16 lock times at the ends of theirs
Uint32Heights ==
    {Int64(0, 0), Int64(0, 1), Int64(0, MaxUint16), Int64(1, 0),
     Int64(MaxUint16, MaxUint16 - 1), Int64(MaxUint16, MaxUint16)}
Uint16LockTimes == {Int64(0, 0), Int64(0, 1), Int64(0, MaxUint16 - 1), Int64(0, MaxUint16)}

\* a number below 2^31 in two parts
ToInt64(n) == Int64(n \div (MaxUint16 + 1), n % (MaxUint16 + 1))

\* C29: a record the withdrawable filter accepts at a best height is
\* accepted, unchanged, at every higher best height, and is in the page of
\* the query there; the computation gives the same on the heights in two
\* parts, where it is monotone up to the highest uint32 height, under every
\* uint16 lock time.
C29_EligibilityMonotone ==
    /\ \A k \in 1..Len(inserted) :
          LET t == RecordAt(k)
          IN  \A h \in FilterBestHeights, later \in FilterBestHeights :
                  (h <= later /\ timeLockExpired(t, h)) => timeLockExpired(t, later)
    /\ \A later \in FilterBestHeights :
          LET page == QueryStoredTransactions(
                          db, Query(0, Len(inserted), FALSE,
                                    Some([currentBestBlockHeight |-> later])))
              idx == IndicesOf(page.Transactions)
          IN  \A k \in 1..Len(inserted) :
                  LET t == RecordAt(k)
                  IN  (\E h \in FilterBestHeights : h <= later /\ timeLockExpired(t, h))
                          => \E i \in 1..Len(idx) : idx[i] = k /\ page.Transactions[i] = t
    /\ \A k \in 1..Len(inserted), h \in FilterBestHeights :
          LET t == RecordAt(k)
          IN  Len(t.StakingTxConfirmationInfo) # 0 =>
                  \A lock \in {t.StakingTime, MaxUint16} :
                      isTimeLockExpired(t.StakingTxConfirmationInfo[1].Height, lock, h)
                          = isTimeLockExpiredInt64(
                                ToInt64(t.StakingTxConfirmationInfo[1].Height),
                                ToInt64(lock), ToInt64(h))
    /\ \A c \in Uint32Heights, lock \in Uint16LockTimes :
          \A h \in Uint32Heights, later \in Uint32Heights :
              (Int64LessEq(h, later) /\ isTimeLockExpiredInt64(c, lock, h)) =>
                  isTimeLockExpiredInt64(c, lock, later)

\* a confirmed record under the longest lock, rejected at a best height and
\* accepted at the next and at the highest asked; a confirmation at the
\* highest uint32 height under a lock of one block, rejected below that
\* height and accepted at it, and rejected at it under the longest lock
C29_Witness ==
    /\ \E k \in 1..Len(inserted), h \in FilterBestHeights :
          /\ RecordAt(k).StakingTime = MaxUint16
          /\ h + 1 \in FilterBestHeights
          /\ ~timeLockExpired(RecordAt(k), h)
          /\ timeLockExpired(RecordAt(k), h + 1)
          /\ \A later \in FilterBestHeights :
                later > h => timeLockExpired(RecordAt(k), later)
    /\ ~isTimeLockExpiredInt64(Int64(MaxUint16, MaxUint16), Int64(0, 1),
                               Int64(MaxUint16, MaxUint16 - 1))
    /\ isTimeLockExpiredInt64(Int64(MaxUint16, MaxUint16), Int64(0, 1),
                              Int64(MaxUint16, MaxUint16))
    /\ ~isTimeLockExpiredInt64(Int64(MaxUint16, MaxUint16), Int64(0, MaxUint16),
                               Int64(MaxUint16, MaxUint16))

---------------------------------------------------------------------------
(* C30 *)

\* C30: the insertion of a transaction whose hash is not indexed, with an
\* unbonding transaction, returns nil whichever of its inputs are used; it
\* returns the same, and leaves the same records and the same hash index, as
\* on the store with the outpoint index emptied; after it every outpoint the
\* transaction consumes is used and its entry holds the hash of this
\* transaction, and every outpoint used before is still used.
C30_InsertIgnoresOutpointIndex ==
    \A c \in InsertCalls :
        (Len(c[2].unbondingTx) # 0 /\ TxHash(c[1]) \notin IndexedHashes(db)) =>
            LET r == Insert(db, c[1], c[2])
                blind == Insert([db EXCEPT !.inputs = initBuckets.inputs], c[1], c[2])
            IN  /\ r.err = ErrNone
                /\ blind.err = r.err
                /\ blind.db.transactions = r.db.transactions
                /\ blind.db.transactionIdx = r.db.transactionIdx
                /\ \A op \in ConsumedBy(c[1]) :
                      /\ OutpointUsed(r.db, op)
                      /\ r.db.inputs[outpointBytes(op)] = TxHash(c[1])
                /\ \A op \in OutPoints : OutpointUsed(db, op) => OutpointUsed(r.db, op)

\* a transaction was inserted that consumes an outpoint an earlier tracked
\* transaction had marked used: the entry holds the hash of the later one,
\* and a further transaction, not tracked yet, can be inserted
C30_Witness ==
    /\ Len(inserted) = 2
    /\ \E op \in ConsumedBy(inserted[1]) \cap ConsumedBy(inserted[2]) :
          /\ OutpointUsed(db, op)
          /\ db.inputs[outpointBytes(op)] = TxHash(inserted[2])
          /\ db.inputs[outpointBytes(op)] # TxHash(inserted[1])
    /\ \E c \in InsertCalls :
          /\ Len(c[2].unbondingTx) # 0
          /\ TxHash(c[1]) \notin IndexedHashes(db)
          /\ Insert(db, c[1], c[2]).err = ErrNone

---------------------------------------------------------------------------
(* C31 *)

\* C31: an insertion that returns nil writes a record without staking
\* confirmation and with unbonding data that holds the unbonding transaction
\* and time of the call, no covenant signature and no confirmation; an
\* insertion without unbonding transaction returns an error and leaves the
\* store as it was.  So every record of the store has unbonding data, Get
\* returns it with them, and neither SetTxUnbondingSignaturesReceived nor
\* SetTxUnbondingConfirmedOnBtc returns ErrUnbondingDataNotFound.
C31_UnbondingDataAlwaysPresent ==
    /\ \A tx \in StakingTxs, a \in InsertArgs :
          LET r == Insert(db, tx, a)
              m == StoredMessage(r.db, TxHash(tx))
              got == GetTransaction(r.db, TxHash(tx))
          IN  /\ Len(a.unbondingTx) = 0 => (r.err = ErrNoUnbondingTx /\ r.db = db)
              /\ r.err = ErrNone =>
                    /\ Len(a.unbondingTx) # 0
                    /\ Len(m.StakingTxBtcConfirmationInfo) = 0
                    /\ Len(m.UnbondingTxData) # 0
                    /\ m.UnbondingTxData[1].UnbondingTransaction
                          = SerializeBtcTransaction(a.unbondingTx[1])
                    /\ m.UnbondingTxData[1].UnbondingTime = a.unbondingTime
                    /\ Len(m.UnbondingTxData[1].CovenantSignatures) = 0
                    /\ Len(m.UnbondingTxData[1].UnbondingTxBtcConfirmationInfo) = 0
                    /\ got.err = ErrNone
                    /\ Len(got.tx[1].StakingTxConfirmationInfo) = 0
                    /\ Len(got.tx[1].UnbondingTxData) # 0
                    /\ Len(got.tx[1].UnbondingTxData[1].CovenantSignatures) = 0
                    /\ Len(got.tx[1].UnbondingTxData[1].UnbondingTxConfirmationInfo) = 0
    /\ \A h \in IndexedHashes(db) :
          /\ HasUnbondingData(db, h)
          /\ Len(GetTransaction(db, h).tx[1].UnbondingTxData) # 0
    /\ \A h \in TxHashes :
          /\ \A sigs \in SigSets :
                SetTxUnbondingSignaturesReceived(db, h, sigs).err # ErrUnbondingDataNotFound
          /\ \A height \in Heights :
                SetTxUnbondingConfirmedOnBtc(db, h, BlockHashAt(height), height).err
                    # ErrUnbondingDataNotFound

\* two records: the first has its staking confirmation, its signatures and
\* its unbonding confirmation, the second is as the insertion wrote it; the
\* third transaction is refused without unbonding transaction and accepted
\* with one
C31_Witness ==
    /\ Len(inserted) = 2
    /\ LET first == StoredMessage(db, TxHash(inserted[1]))
           second == StoredMessage(db, TxHash(inserted[2]))
       IN  /\ Len(first.StakingTxBtcConfirmationInfo) # 0
           /\ Len(first.UnbondingTxData[1].CovenantSignatures) # 0
           /\ Len(first.UnbondingTxData[1].UnbondingTxBtcConfirmationInfo) # 0
           /\ Len(second.StakingTxBtcConfirmationInfo) = 0
           /\ Len(second.UnbondingTxData) # 0
           /\ Len(second.UnbondingTxData[1].CovenantSignatures) = 0
    /\ \E tx \in StakingTxs :
          /\ TxHash(tx) \notin IndexedHashes(db)
          /\ Insert(db, tx, InsertArgsNoUnbonding).err = ErrNoUnbondingTx
          /\ Insert(db, tx, InsertArgsNoUnbonding).db = db
          /\ Insert(db, tx, InsertArgsA).err = ErrNone

====
